---- MODULE Spec2Model ----
(***************************************************************************)
(* A model of bytecode_playground: the instruction decoder and encoder,    *)
(* the compute stack, the managed heap with its collector, and the         *)
(* interpreter (Machine::step / Machine::execute).                         *)
(***************************************************************************)
EXTENDS Integers, Sequences, FiniteSets, TLC

\* ------------------------------------------------------------------ bounds
\* Largest literal a PSH_8 of the explored programs pushes.
MaxVal == 2
\* Largest stack, in 8-byte slots, the explored programs build.
MaxSlots == 4
\* Number of allocations the explored programs perform.
MaxAllocs == 2
\* Largest stack_references the explored programs build up.
MaxRefs == 2
\* Most child slots and most data bytes of an object the explored programs allocate.
MaxChildren == 1
MaxData == 0

VARIABLES
    instructions,   \* Machine.instructions: the bytes of the stream
    pos,            \* Machine.instructions: the stream position
    stack,          \* Machine.stack: Vec<u8>
    tags,           \* tagging oracle: per stack byte, 0 or its place 1..8 in a
                    \* reference pushed by ALLOC, COPY_REF or GET_CHILD
    counter,        \* Heap.counter
    reference_map,  \* Heap.reference_map
    result,         \* what the last operation returned
    last,           \* the last operation: the instruction executed, or a marker
    before,         \* the reference_map the last collect_garbage began with
                    \* (<<>> when the last operation was another one)
    allocated,      \* the references ALLOC has pushed so far, in order
    overflow_checks \* the build: TRUE when integer overflow panics (the dev
                    \* profile), FALSE when it wraps (the release profile)

vars == <<instructions, pos, stack, tags, counter, reference_map, result, last,
          before, allocated, overflow_checks>>

\* ----------------------------------------------------------------- results
Ok == [kind |-> "Ok", byte |-> 0]
Err(k) == [kind |-> k, byte |-> 0]
ErrByte(k, b) == [kind |-> k, byte |-> b]

\* The effect of `?`: a failed state passes through every later call unchanged.
Fail(s, k) == [s EXCEPT !.err = Err(k)]
FailByte(s, k, b) == [s EXCEPT !.err = ErrByte(k, b)]
Failed(s) == s.err.kind # "Ok"

\* ------------------------------------------------------------------- bytes
RECURSIVE to_le_bytes(_, _)
to_le_bytes(v, n) ==
    IF n = 0 THEN <<>> ELSE <<v % 256>> \o to_le_bytes(v \div 256, n - 1)

RECURSIVE from_le_bytes(_)
from_le_bytes(bytes) ==
    IF bytes = <<>> THEN 0 ELSE Head(bytes) + 256 * from_le_bytes(Tail(bytes))

Zeros(n) == [i \in 1..n |-> 0]

\* ---------------------------------------------------------------- integers
\* The primitive integer types: [bits, signed].  A value of a type is the
\* sequence of its bits, least significant first (two's complement if signed).
u8  == [bits |-> 8,  signed |-> FALSE]
u16 == [bits |-> 16, signed |-> FALSE]
u32 == [bits |-> 32, signed |-> FALSE]
u64 == [bits |-> 64, signed |-> FALSE]
i8  == [bits |-> 8,  signed |-> TRUE]
i16 == [bits |-> 16, signed |-> TRUE]
i32 == [bits |-> 32, signed |-> TRUE]
i64 == [bits |-> 64, signed |-> TRUE]

\* The floating-point types: a value is the sequence of the bits of its
\* IEEE-754 encoding, least significant first: the mantissa, then `exponent'
\* bits of exponent, then the sign.
f32 == [bits |-> 32, signed |-> TRUE, exponent |-> 8]
f64 == [bits |-> 64, signed |-> TRUE, exponent |-> 11]

\* <T>::from_le_bytes and <T>::to_le_bytes
int_from_le_bytes(bytes) ==
    [i \in 1..(8 * Len(bytes)) |-> (bytes[((i - 1) \div 8) + 1] \div 2 ^ ((i - 1) % 8)) % 2]

int_to_le_bytes(v) ==
    [j \in 1..(Len(v) \div 8) |->
        v[8 * j - 7] + 2 * v[8 * j - 6] + 4 * v[8 * j - 5] + 8 * v[8 * j - 4]
            + 16 * v[8 * j - 3] + 32 * v[8 * j - 2] + 64 * v[8 * j - 1] + 128 * v[8 * j]]

\* 0, <T>::MAX and <T>::MIN of a type
Zero(typ) == [i \in 1..typ.bits |-> 0]
MAX(typ) == [i \in 1..typ.bits |-> IF typ.signed /\ i = typ.bits THEN 0 ELSE 1]
MIN(typ) == [i \in 1..typ.bits |-> IF typ.signed /\ i = typ.bits THEN 1 ELSE 0]

\* Arithmetic works on the little-endian bytes of the values.
\* The adder: x + y + cin on equally long byte sequences, with the carry out.
\* AddFrom ripples from byte j on; acc holds the bytes below j, c the carry in.
RECURSIVE AddFrom(_, _, _, _, _)
AddFrom(x, y, j, c, acc) ==
    IF j > Len(x) THEN [value |-> acc, carry |-> c]
    ELSE AddFrom(x, y, j + 1, (x[j] + y[j] + c) \div 256,
                 Append(acc, (x[j] + y[j] + c) % 256))

AddBytes(x, y, cin) == AddFrom(x, y, 1, cin, <<>>)

NotBytes(x) == [j \in 1..Len(x) |-> 255 - x[j]]

\* x - y as x + !y + 1: the carry out is 0 exactly when x < y (unsigned)
SubBytes(x, y) == AddBytes(x, NotBytes(y), 1)

AddBits(a, b, cin) ==
    LET s == AddBytes(int_to_le_bytes(a), int_to_le_bytes(b), cin)
    IN  [value |-> int_from_le_bytes(s.value), carry |-> s.carry]

NotBits(a) == [i \in 1..Len(a) |-> 1 - a[i]]

SubBits(a, b) == AddBits(a, NotBits(b), 1)

NegBits(a) == AddBits(NotBits(a), [i \in 1..Len(a) |-> 0], 1).value

\* The multiplier: the 2n bytes of the product of two n-byte unsigned values,
\* column by column.  ColumnSum adds the partial products x[j] * y[k + 1 - j]
\* of column k from j on to s; MulPut stores the byte of column k and carries.
RECURSIVE ColumnSum(_, _, _, _, _)
ColumnSum(x, y, k, j, s) ==
    IF j > Len(x) \/ j > k THEN s
    ELSE ColumnSum(x, y, k, j + 1, s + x[j] * y[k + 1 - j])

RECURSIVE MulFrom(_, _, _, _, _)
MulPut(x, y, k, sum, acc) == MulFrom(x, y, k + 1, sum \div 256, Append(acc, sum % 256))
MulFrom(x, y, k, c, acc) ==
    IF k > 2 * Len(x) THEN acc
    ELSE MulPut(x, y, k, ColumnSum(x, y, k, IF k > Len(y) THEN k + 1 - Len(y) ELSE 1, c), acc)

MulBits(a, b) == int_from_le_bytes(MulFrom(int_to_le_bytes(a), int_to_le_bytes(b), 1, 0, <<>>))

\* The divider: quotient and remainder of two unsigned values, b # 0, by shift
\* and subtract from the most significant bit of a down.  st.r is the
\* remainder so far (one byte wider than a), st.q the quotient bits found,
\* least significant first; DivStep takes bit i of a in (r + r + a[i], less b
\* if that leaves no borrow), DivRange the bits hi down to lo: the upper half
\* of them first, then the lower half from the state that leaves.
DivStep(a, wide, st, i) ==
    LET shifted == AddBytes(st.r, st.r, a[i]).value
        d == SubBytes(shifted, wide)
    IN  IF d.carry = 1 THEN [r |-> d.value, q |-> <<1>> \o st.q]
        ELSE [r |-> shifted, q |-> <<0>> \o st.q]

RECURSIVE DivRange(_, _, _, _, _)
DivRange(a, wide, st, hi, lo) ==
    IF hi = lo THEN DivStep(a, wide, st, hi)
    ELSE LET upper == DivRange(a, wide, st, hi, (hi + lo + 1) \div 2)
         IN  IF Len(upper.q) > Len(st.q)
             THEN DivRange(a, wide, upper, ((hi + lo + 1) \div 2) - 1, lo)
             ELSE upper

DivBits(a, b) ==
    LET st == DivRange(a, int_to_le_bytes(b) \o <<0>>,
                       [r |-> Zeros(Len(a) \div 8 + 1), q |-> <<>>], Len(a), 1)
    IN  [quot |-> st.q, rem |-> int_from_le_bytes(SubSeq(st.r, 1, Len(a) \div 8))]

IsNegative(typ, a) == typ.signed /\ a[typ.bits] = 1

\* unsigned_abs
Magnitude(typ, a) == IF IsNegative(typ, a) THEN NegBits(a) ELSE a

\* a / b and a % b of a type, b # 0: truncated towards zero, the remainder with
\* the sign of a.  panic: <iN>::MIN / -1 and <iN>::MIN % -1 overflow, which
\* panics in every build.
Div(typ, a, b) ==
    LET q == DivBits(Magnitude(typ, a), Magnitude(typ, b)).quot IN
    [panic |-> typ.signed /\ a = MIN(typ) /\ b = NotBits(Zero(typ)),
     value |-> IF IsNegative(typ, a) # IsNegative(typ, b) THEN NegBits(q) ELSE q]

Rem(typ, a, b) ==
    LET r == DivBits(Magnitude(typ, a), Magnitude(typ, b)).rem IN
    [panic |-> typ.signed /\ a = MIN(typ) /\ b = NotBits(Zero(typ)),
     value |-> IF IsNegative(typ, a) THEN NegBits(r) ELSE r]

\* The number a bit sequence stands for as an unsigned value (used for the u8
\* count of a shift)
RECURSIVE ToNat(_)
ToNat(v) == IF v = <<>> THEN 0 ELSE Head(v) + 2 * ToNat(Tail(v))

\* The operators the arms of execute hand to two_argument_instruction_impl!,
\* on operands of the type typ: the result, and whether the operation
\* overflows.  +, - and * are used on the unsigned types only.  A shift
\* overflows when the count is not below the width; its result is then that of
\* the count reduced modulo the width.
ShiftRight(typ, a, n) ==
    [i \in 1..typ.bits |->
        IF i + n <= typ.bits THEN a[i + n]
        ELSE IF typ.signed THEN a[typ.bits] ELSE 0]

ShiftLeft(typ, a, n) == [i \in 1..typ.bits |-> IF i > n THEN a[i - n] ELSE 0]

BinaryOp(op, typ, a, b) ==
    LET sum == AddBits(a, b, 0)
        difference == SubBits(a, b)
        product == MulBits(a, b)
    IN  CASE op = "+" -> [value |-> sum.value, overflow |-> sum.carry = 1]
          [] op = "-" -> [value |-> difference.value, overflow |-> difference.carry = 0]
          [] op = "*" -> [value |-> SubSeq(product, 1, typ.bits),
                          overflow |-> SubSeq(product, typ.bits + 1, 2 * typ.bits)
                                            # Zero(typ)]
          [] op = ">>" -> [value |-> ShiftRight(typ, a, ToNat(b) % typ.bits),
                           overflow |-> ToNat(b) >= typ.bits]
          [] op = "<<" -> [value |-> ShiftLeft(typ, a, ToNat(b) % typ.bits),
                           overflow |-> ToNat(b) >= typ.bits]

\* PartialOrd::partial_cmp(&a, &b) followed by From<Option<Ordering>> for
\* PossiblyOrdering.  Integers are compared by value.  Floats are compared as
\* IEEE-754 orders them: a NaN is not ordered with anything (None, which
\* becomes Unordered), and the two zeros are equal.
IsFloat(typ) == "exponent" \in DOMAIN typ

IsNaN(typ, a) ==
    /\ \A i \in (typ.bits - typ.exponent)..(typ.bits - 1) : a[i] = 1
    /\ \E i \in 1..(typ.bits - typ.exponent - 1) : a[i] = 1

IsZeroFloat(typ, a) == \A i \in 1..(typ.bits - 1) : a[i] = 0

\* A key whose unsigned order is the order of the values: the top bit is
\* flipped for a value that is not negative, all bits for a negative one
\* (a float is a sign and a magnitude, a signed integer is two's complement)
OrderKey(typ, a) ==
    IF ~typ.signed THEN a
    ELSE IF IsFloat(typ) /\ a[typ.bits] = 1 THEN NotBits(a)
    ELSE [a EXCEPT ![typ.bits] = 1 - @]

CmpKeys(x, y) ==
    IF x = y THEN "Equal"
    ELSE IF SubBits(x, y).carry = 0 THEN "Less" ELSE "Greater"

partial_cmp(typ, a, b) ==
    IF IsFloat(typ) /\ (IsNaN(typ, a) \/ IsNaN(typ, b)) THEN "Unordered"
    ELSE IF IsFloat(typ) /\ IsZeroFloat(typ, a) /\ IsZeroFloat(typ, b) THEN "Equal"
    ELSE CmpKeys(OrderKey(typ, a), OrderKey(typ, b))

\* `cmp as u8'
as_u8(cmp) ==
    CASE cmp = "Unordered" -> 0 [] cmp = "Less" -> 1
      [] cmp = "Equal" -> 2 [] cmp = "Greater" -> 3

\* ------------------------------------------------------ infallible_division
\* impl_unchecked_division!: InfallibleDivision::infallible_div and
\* infallible_rem of a type.  The result is [panic, value].
infallible_div_min(typ, a, b) ==
    IF b # Zero(typ) THEN Div(typ, a, b) ELSE [panic |-> FALSE, value |-> MIN(typ)]

infallible_div(typ, a, b) ==
    IF b # Zero(typ) THEN Div(typ, a, b) ELSE [panic |-> FALSE, value |-> MAX(typ)]

infallible_rem_zero(typ, a, b) ==
    IF b # Zero(typ) THEN Rem(typ, a, b) ELSE [panic |-> FALSE, value |-> b]

infallible_rem(typ, a, b) ==
    IF b # Zero(typ) THEN Rem(typ, a, b) ELSE [panic |-> FALSE, value |-> a]

\* ----------------------------------------------------------- compute stack
\* Vec<u8>::push_slice: extend_from_slice; never fails.  Plain bytes are untagged.
push_slice(s, slice) ==
    IF Failed(s) THEN s
    ELSE [s EXCEPT !.stack = @ \o slice, !.tags = @ \o Zeros(Len(slice))]

\* Vec<u8>::pop_slice: split_off(len - length), or Underflow with the stack as it was.
pop_slice(s, length) ==
    IF Failed(s) THEN s
    ELSE IF Len(s.stack) >= length
    THEN [s EXCEPT !.val = SubSeq(s.stack, Len(s.stack) - length + 1, Len(s.stack)),
                   !.stack = SubSeq(@, 1, Len(s.stack) - length),
                   !.tags = SubSeq(@, 1, Len(s.stack) - length)]
    ELSE Fail(s, "Underflow")

\* push_impl!: push_slice(&value.to_le_bytes())
push_u64(s, value) == push_slice(s, to_le_bytes(value, 8))

\* pop_impl!: from_le_bytes(pop_slice(8))
pop_u64(s) ==
    LET p == pop_slice(s, 8) IN
    IF Failed(p) THEN p ELSE [p EXCEPT !.val = from_le_bytes(p.val)]

\* Vec<u8>::push_u8 override: self.push(value)
push_u8(s, value) ==
    IF Failed(s) THEN s
    ELSE [s EXCEPT !.stack = Append(@, value), !.tags = Append(@, 0)]

\* Vec<u8>::pop_u8 override: self.pop().ok_or(Underflow)
pop_u8(s) ==
    IF Failed(s) THEN s
    ELSE IF Len(s.stack) = 0 THEN Fail(s, "Underflow")
    ELSE [s EXCEPT !.val = s.stack[Len(s.stack)],
                   !.stack = SubSeq(@, 1, Len(s.stack) - 1),
                   !.tags = SubSeq(@, 1, Len(s.stack) - 1)]

\* A remove_top that empties a stack shorter than length
remove_top_saturating(s, length) ==
    IF Failed(s) THEN s
    ELSE IF Len(s.stack) >= length
    THEN [s EXCEPT !.stack = SubSeq(@, 1, Len(s.stack) - length),
                   !.tags = SubSeq(@, 1, Len(s.stack) - length)]
    ELSE [s EXCEPT !.stack = <<>>, !.tags = <<>>]

\* Vec<u8>::remove_top: drain((len - length)..len), or Underflow.
remove_top(s, length) ==
    IF Failed(s) THEN s
    ELSE IF Len(s.stack) >= length
    THEN [s EXCEPT !.stack = SubSeq(@, 1, Len(s.stack) - length),
                   !.tags = SubSeq(@, 1, Len(s.stack) - length)]
    ELSE Fail(s, "Underflow")

\* stack_pop!: pop_<typ>, which is <typ>::from_le_bytes(pop_slice(size_of::<typ>()))
stack_pop(s, typ) ==
    LET p == pop_slice(s, typ.bits \div 8) IN
    IF Failed(p) THEN p ELSE [p EXCEPT !.val = int_from_le_bytes(p.val)]

\* A push of the bytes of the value most significant first
stack_push_be(s, typ, value) ==
    IF Failed(s) THEN s
    ELSE push_slice(s, [j \in 1..(typ.bits \div 8) |->
                            int_to_le_bytes(value)[typ.bits \div 8 + 1 - j]])

\* stack_push!: push_<typ>, which is push_slice(&value.to_le_bytes())
stack_push(s, typ, value) ==
    IF Failed(s) THEN s ELSE push_slice(s, int_to_le_bytes(value))

\* The oracle's mark on the 8 bytes just pushed as a reference.
TagTop(s) ==
    IF Failed(s) THEN s
    ELSE [s EXCEPT !.tags = SubSeq(@, 1, Len(@) - 8) \o [i \in 1..8 |-> i]]

\* -------------------------------------------------------------------- heap
\* u16::MAX, the ceiling of Object.stack_references
U16_MAX == 65535

\* ObjectReference::new_option: None (modelled as 0) for zero.
new_option(n) == n

\* ObjectReference::new_result: new_option(n).ok_or(IllegalNullObjectReferenceUsage)
new_result(s, n) ==
    IF Failed(s) THEN s
    ELSE IF new_option(n) = 0 THEN Fail(s, "IllegalNullObjectReferenceUsage")
    ELSE [s EXCEPT !.val = n]

\* An object that starts with no stack reference
Object_new_unreferenced(children_length, data_length) ==
    [stack_references |-> 0,
     children |-> Zeros(children_length),
     data |-> Zeros(data_length)]

\* Object::new
Object_new(children_length, data_length) ==
    [stack_references |-> 1,
     children |-> Zeros(children_length),
     data |-> Zeros(data_length)]

\* The counter, a NonZeroU64, is held as its 8 little-endian bytes
NonZeroU64(n) == to_le_bytes(n, 8)
U64_MAX == [i \in 1..8 |-> 255]

\* A counter that hands out the lowest index no object holds (reclaimed ones again)
get_and_increment_counter_reusing(s) ==
    IF Failed(s) THEN s
    ELSE [s EXCEPT !.val = CHOOSE n \in 1..from_le_bytes(s.counter) :
                                /\ n \notin DOMAIN s.reference_map
                                /\ \A m \in 1..(n - 1) : m \in DOMAIN s.reference_map,
                   !.counter = AddBytes(@, NonZeroU64(1), 0).value]

\* Heap::get_and_increment_counter: `self.counter.get() + 1' is the plain +,
\* which at u64::MAX panics in a build with overflow checks and wraps to 0
\* otherwise; NonZeroU64::new(0) is None, which becomes HeapError::Allocation,
\* and the counter is left as it was.
get_and_increment_counter(s) ==
    IF Failed(s) THEN s
    ELSE IF AddBytes(s.counter, NonZeroU64(1), 0).carry = 1 /\ s.overflow_checks
    THEN Fail(s, "panic")
    ELSE IF AddBytes(s.counter, NonZeroU64(1), 0).value = NonZeroU64(0)
    THEN Fail(s, "Allocation")
    ELSE [s EXCEPT !.val = from_le_bytes(s.counter),
                   !.counter = AddBytes(@, NonZeroU64(1), 0).value]

\* Heap::allocate
allocate(s, children_length, data_length) ==
    LET c == get_and_increment_counter(s) IN
    IF Failed(c) THEN c
    ELSE [c EXCEPT !.reference_map =
            [r \in DOMAIN @ \cup {c.val} |->
                IF r = c.val THEN Object_new(children_length, data_length) ELSE @[r]]]

\* An increment that wraps to 0 at u16::MAX
increment_stack_references_wrapping(s, obj_ref) ==
    IF Failed(s) THEN s
    ELSE IF obj_ref \notin DOMAIN s.reference_map THEN Fail(s, "ObjectNotFound")
    ELSE [s EXCEPT !.reference_map[obj_ref].stack_references = (@ + 1) % (U16_MAX + 1)]

\* Heap::increment_stack_references
increment_stack_references(s, obj_ref) ==
    IF Failed(s) THEN s
    ELSE IF obj_ref \notin DOMAIN s.reference_map THEN Fail(s, "ObjectNotFound")
    ELSE IF s.reference_map[obj_ref].stack_references = U16_MAX
    THEN Fail(s, "StackReferenceError")
    ELSE [s EXCEPT !.reference_map[obj_ref].stack_references = @ + 1]

\* A decrement that takes two stack references off an object that has two
decrement_stack_references_twice(s, obj_ref) ==
    IF Failed(s) THEN s
    ELSE IF obj_ref \notin DOMAIN s.reference_map THEN Fail(s, "ObjectNotFound")
    ELSE IF s.reference_map[obj_ref].stack_references = 0
    THEN Fail(s, "StackReferenceError")
    ELSE [s EXCEPT !.reference_map[obj_ref].stack_references = IF @ >= 2 THEN @ - 2 ELSE 0]

\* Heap::decrement_stack_references
decrement_stack_references(s, obj_ref) ==
    IF Failed(s) THEN s
    ELSE IF obj_ref \notin DOMAIN s.reference_map THEN Fail(s, "ObjectNotFound")
    ELSE IF s.reference_map[obj_ref].stack_references = 0
    THEN Fail(s, "StackReferenceError")
    ELSE [s EXCEPT !.reference_map[obj_ref].stack_references = @ - 1]

\* A set_child that gives the parent its popped stack reference back when the
\* index is out of bounds
set_child_restoring(s, parent, index, child) ==
    IF Failed(s) THEN s
    ELSE IF parent \notin DOMAIN s.reference_map THEN Fail(s, "ObjectNotFound")
    ELSE IF index >= Len(s.reference_map[parent].children)
    THEN Fail([s EXCEPT !.reference_map[parent].stack_references = @ + 1],
              "ChildIndexOutOfBounds")
    ELSE [s EXCEPT !.reference_map[parent].children[index + 1] = child]

\* Heap::set_child with Object::set_child: children.get_mut(index) or
\* ChildIndexOutOfBounds.  index is the 0-based index of the code.
set_child(s, parent, index, child) ==
    IF Failed(s) THEN s
    ELSE IF parent \notin DOMAIN s.reference_map THEN Fail(s, "ObjectNotFound")
    ELSE IF index >= Len(s.reference_map[parent].children)
    THEN Fail(s, "ChildIndexOutOfBounds")
    ELSE [s EXCEPT !.reference_map[parent].children[index + 1] = child]

\* Heap::get_child with Object::get_child
get_child(s, parent, index) ==
    IF Failed(s) THEN s
    ELSE IF parent \notin DOMAIN s.reference_map THEN Fail(s, "ObjectNotFound")
    ELSE IF index >= Len(s.reference_map[parent].children)
    THEN Fail(s, "ChildIndexOutOfBounds")
    ELSE [s EXCEPT !.val = s.reference_map[parent].children[index + 1]]

\* usize, 64 bits wide: `pop_u64()? as usize' keeps the value
usize == u64

\* A number of the model as a usize
USize(n) == int_from_le_bytes(to_le_bytes(n, 8))

\* The range start..start+length of Object::get_data_slice and
\* get_mut_data_slice on data of len bytes, start a usize: `start+length' is
\* the plain +, which panics on overflow in a build with overflow checks and
\* wraps otherwise; slice::get gives None unless start <= end <= len.
DataRange(start, length, len, checks) ==
    LET end == BinaryOp("+", usize, start, USize(length)) IN
    [panic |-> end.overflow /\ checks,
     some |-> /\ CmpKeys(start, end.value) # "Greater"
              /\ CmpKeys(end.value, USize(len)) # "Greater"]

\* Heap::get_data_slice with Object::get_data_slice: data.get(start..start+length)
\* or OutOfBoundsObjectDataAccess
get_data_slice(s, obj_ref, start, length) ==
    IF Failed(s) THEN s
    ELSE IF obj_ref \notin DOMAIN s.reference_map THEN Fail(s, "ObjectNotFound")
    ELSE IF DataRange(start, length, Len(s.reference_map[obj_ref].data),
                      s.overflow_checks).panic
    THEN Fail(s, "panic")
    ELSE IF ~DataRange(start, length, Len(s.reference_map[obj_ref].data),
                       s.overflow_checks).some
    THEN Fail(s, "OutOfBoundsObjectDataAccess")
    ELSE [s EXCEPT !.val = SubSeq(s.reference_map[obj_ref].data,
                                  from_le_bytes(int_to_le_bytes(start)) + 1,
                                  from_le_bytes(int_to_le_bytes(start)) + length)]

\* Heap::get_mut_data_slice with Object::get_mut_data_slice: the mutable slice
\* is the range [start, length] of the object's data it covers
get_mut_data_slice(s, obj_ref, start, length) ==
    IF Failed(s) THEN s
    ELSE IF obj_ref \notin DOMAIN s.reference_map THEN Fail(s, "ObjectNotFound")
    ELSE IF DataRange(start, length, Len(s.reference_map[obj_ref].data),
                      s.overflow_checks).panic
    THEN Fail(s, "panic")
    ELSE IF ~DataRange(start, length, Len(s.reference_map[obj_ref].data),
                       s.overflow_checks).some
    THEN Fail(s, "OutOfBoundsObjectDataAccess")
    ELSE [s EXCEPT !.val = [start |-> from_le_bytes(int_to_le_bytes(start)),
                            length |-> length]]

\* Write::write for &mut [u8], on the slice out of obj_ref's data: copies
\* min(out.len(), data.len()) bytes
write(s, obj_ref, out, data) ==
    IF Failed(s) THEN s
    ELSE LET amt == IF out.length < Len(data) THEN out.length ELSE Len(data) IN
         [s EXCEPT !.reference_map[obj_ref].data =
                [i \in DOMAIN @ |->
                    IF i > out.start /\ i <= out.start + amt
                    THEN data[i - out.start] ELSE @[i]]]

\* children.iter().flatten(): the non-null children, in slot order
RECURSIVE flatten(_)
flatten(children) ==
    IF children = <<>> THEN <<>>
    ELSE IF Head(children) = 0 THEN flatten(Tail(children))
    ELSE <<Head(children)>> \o flatten(Tail(children))

\* Heap::sift_garbage.  scanning_statuses is [status, panicked]: status maps each
\* reference to "Yes" (IsGarbage::Yes) or "No"; panicked records the unwrap() of a
\* reference that is not in the map.  SiftEach is the for loop over the children
\* (and, in collect_garbage, over the roots).
\* A sift that clears the object it is given and does not follow its children
sift_garbage_shallow(map, obj_ref, scanning_statuses) ==
    IF scanning_statuses.panicked THEN scanning_statuses
    ELSE IF obj_ref \notin DOMAIN scanning_statuses.status
    THEN [scanning_statuses EXCEPT !.panicked = TRUE]
    ELSE [scanning_statuses EXCEPT !.status[obj_ref] = "No"]

RECURSIVE sift_garbage(_, _, _)
RECURSIVE SiftEach(_, _, _)
sift_garbage(map, obj_ref, scanning_statuses) ==
    IF scanning_statuses.panicked THEN scanning_statuses
    ELSE IF obj_ref \notin DOMAIN scanning_statuses.status
    THEN [scanning_statuses EXCEPT !.panicked = TRUE]
    ELSE IF scanning_statuses.status[obj_ref] = "Yes"
    THEN SiftEach(map, flatten(map[obj_ref].children),
                  [scanning_statuses EXCEPT !.status[obj_ref] = "No"])
    ELSE scanning_statuses

SiftEach(map, refs, scanning_statuses) ==
    IF refs = <<>> THEN scanning_statuses
    ELSE SiftEach(map, Tail(refs), sift_garbage(map, Head(refs), scanning_statuses))

\* Roots chosen by stack_references >= 0
Roots_nonnegative(map) == {r \in DOMAIN map : map[r].stack_references >= 0}

\* The roots of a map (stack_references > 0), and the orders a HashMap
\* iteration may list them in.
Roots(map) == {r \in DOMAIN map : map[r].stack_references > 0}
Orders(S) == {f \in [1..Cardinality(S) -> S] : \A i, j \in DOMAIN f : f[i] = f[j] => i = j}

\* A collection that sifts from the first root of the iteration only
collect_garbage_first_root(map, root_objects) ==
    LET scanning_statuses ==
            SiftEach(map, IF root_objects = <<>> THEN <<>> ELSE <<Head(root_objects)>>,
                     [status |-> [r \in DOMAIN map |-> "Yes"], panicked |-> FALSE])
        garbage_bin == {r \in DOMAIN map : scanning_statuses.status[r] = "Yes"}
    IN  [map |-> [r \in DOMAIN map \ garbage_bin |-> map[r]],
         panicked |-> scanning_statuses.panicked]

\* Heap::collect_garbage, with root_objects in the order the first loop built it.
\* The result is [map, panicked].
collect_garbage(map, root_objects) ==
    LET scanning_statuses ==
            SiftEach(map, root_objects,
                     [status |-> [r \in DOMAIN map |-> "Yes"], panicked |-> FALSE])
        garbage_bin == {r \in DOMAIN map : scanning_statuses.status[r] = "Yes"}
    IN  [map |-> [r \in DOMAIN map \ garbage_bin |-> map[r]],
         panicked |-> scanning_statuses.panicked]

\* ------------------------------------------------------------- instruction
\* enum Instruction, #[repr(u8)]: the variants in declaration order.  An
\* instruction is [op, value]: value holds the payload of a PSH_n, else <<>>.
Instruction ==
    << "PSH_1", "PSH_2", "PSH_4", "PSH_8", "POP_1", "POP_2", "POP_4", "POP_8", "ALLOC",
     "COPY_REF", "SET_CHILD", "GET_CHILD", "MOV_ST_HP_1", "MOV_ST_HP_2", "MOV_ST_HP_4",
     "MOV_ST_HP_8", "MOV_HP_ST_1", "MOV_HP_ST_2", "MOV_HP_ST_4", "MOV_HP_ST_8", "JSR",
     "RET", "JMP_EQ", "JMP_NE", "JMP_GE", "JMP_GT", "JMP_LE", "JMP_LT", "CMP_U_1",
     "CMP_U_2", "CMP_U_4", "CMP_U_8", "CMP_S_1", "CMP_S_2", "CMP_S_4", "CMP_S_8",
     "CMP_F4", "CMP_F8", "NOT_1", "NOT_2", "NOT_4", "NOT_8", "AND_1", "AND_2", "AND_4",
     "AND_8", "OR_1", "OR_2", "OR_4", "OR_8", "XOR_1", "XOR_2", "XOR_4", "XOR_8",
     "SHL_1", "SHL_2", "SHL_4", "SHL_8", "SHR_1", "SHR_2", "SHR_4", "SHR_8", "SAR_1",
     "SAR_2", "SAR_4", "SAR_8", "ADD_1", "ADD_2", "ADD_4", "ADD_8", "SUB_1", "SUB_2",
     "SUB_4", "SUB_8", "MUL_1", "MUL_2", "MUL_4", "MUL_8", "DIV_REM_U_1", "DIV_REM_U_2",
     "DIV_REM_U_4", "DIV_REM_U_8", "DIV_REM_S_1", "DIV_REM_S_2", "DIV_REM_S_4",
     "DIV_REM_S_8", "ADD_F_4", "ADD_F_8", "SUB_F_4", "SUB_F_8", "MUL_F_4", "MUL_F_8",
     "DIV_F_4", "DIV_F_8", "REM_F_4", "REM_F_8", "CNV_U8_F4", "CNV_U8_F8", "CNV_S8_F4",
     "CNV_S8_F8", "CNV_F4_U8", "CNV_F8_U8", "CNV_F4_S8", "CNV_F8_S8", "CNV_F4_F8",
     "CNV_F8_F4", "CALL_EXT" >>

Instr(op) == [op |-> op, value |-> <<>>]
Psh(n, value) == [op |-> CASE n = 1 -> "PSH_1" [] n = 2 -> "PSH_2"
                           [] n = 4 -> "PSH_4" [] n = 8 -> "PSH_8",
                  value |-> value]
NoInstruction == [op |-> "none", value |-> <<>>]

\* A decoder that indexes the variants from 1 where the discriminants start at 0
from_reader_arm_from_one(d) == Instruction[d]

\* Instruction::from_reader, the arms 4 => ... 106 => of the match
from_reader_arm(d) ==
    CASE d = 4 -> "POP_1" [] d = 5 -> "POP_2" [] d = 6 -> "POP_4" [] d = 7 -> "POP_8"
       [] d = 8 -> "ALLOC" [] d = 9 -> "COPY_REF" [] d = 10 -> "SET_CHILD"
       [] d = 11 -> "GET_CHILD" [] d = 12 -> "MOV_ST_HP_1" [] d = 13 -> "MOV_ST_HP_2"
       [] d = 14 -> "MOV_ST_HP_4" [] d = 15 -> "MOV_ST_HP_8" [] d = 16 -> "MOV_HP_ST_1"
       [] d = 17 -> "MOV_HP_ST_2" [] d = 18 -> "MOV_HP_ST_4" [] d = 19 -> "MOV_HP_ST_8"
       [] d = 20 -> "JSR" [] d = 21 -> "RET" [] d = 22 -> "JMP_EQ" [] d = 23 -> "JMP_NE"
       [] d = 24 -> "JMP_GE" [] d = 25 -> "JMP_GT" [] d = 26 -> "JMP_LE"
       [] d = 27 -> "JMP_LT" [] d = 28 -> "CMP_U_1" [] d = 29 -> "CMP_U_2"
       [] d = 30 -> "CMP_U_4" [] d = 31 -> "CMP_U_8" [] d = 32 -> "CMP_S_1"
       [] d = 33 -> "CMP_S_2" [] d = 34 -> "CMP_S_4" [] d = 35 -> "CMP_S_8"
       [] d = 36 -> "CMP_F4" [] d = 37 -> "CMP_F8" [] d = 38 -> "NOT_1"
       [] d = 39 -> "NOT_2" [] d = 40 -> "NOT_4" [] d = 41 -> "NOT_8"
       [] d = 42 -> "AND_1" [] d = 43 -> "AND_2" [] d = 44 -> "AND_4"
       [] d = 45 -> "AND_8" [] d = 46 -> "OR_1" [] d = 47 -> "OR_2" [] d = 48 -> "OR_4"
       [] d = 49 -> "OR_8" [] d = 50 -> "XOR_1" [] d = 51 -> "XOR_2"
       [] d = 52 -> "XOR_4" [] d = 53 -> "XOR_8" [] d = 54 -> "SHL_1"
       [] d = 55 -> "SHL_2" [] d = 56 -> "SHL_4" [] d = 57 -> "SHL_8"
       [] d = 58 -> "SHR_1" [] d = 59 -> "SHR_2" [] d = 60 -> "SHR_4"
       [] d = 61 -> "SHR_8" [] d = 62 -> "SAR_1" [] d = 63 -> "SAR_2"
       [] d = 64 -> "SAR_4" [] d = 65 -> "SAR_8" [] d = 66 -> "ADD_1"
       [] d = 67 -> "ADD_2" [] d = 68 -> "ADD_4" [] d = 69 -> "ADD_8"
       [] d = 70 -> "SUB_1" [] d = 71 -> "SUB_2" [] d = 72 -> "SUB_4"
       [] d = 73 -> "SUB_8" [] d = 74 -> "MUL_1" [] d = 75 -> "MUL_2"
       [] d = 76 -> "MUL_4" [] d = 77 -> "MUL_8" [] d = 78 -> "DIV_REM_U_1"
       [] d = 79 -> "DIV_REM_U_2" [] d = 80 -> "DIV_REM_U_4" [] d = 81 -> "DIV_REM_U_8"
       [] d = 82 -> "DIV_REM_S_1" [] d = 83 -> "DIV_REM_S_2" [] d = 84 -> "DIV_REM_S_4"
       [] d = 85 -> "DIV_REM_S_8" [] d = 86 -> "ADD_F_4" [] d = 87 -> "ADD_F_8"
       [] d = 88 -> "SUB_F_4" [] d = 89 -> "SUB_F_8" [] d = 90 -> "MUL_F_4"
       [] d = 91 -> "MUL_F_8" [] d = 92 -> "DIV_F_4" [] d = 93 -> "DIV_F_8"
       [] d = 94 -> "REM_F_4" [] d = 95 -> "REM_F_8" [] d = 96 -> "CNV_U8_F4"
       [] d = 97 -> "CNV_U8_F8" [] d = 98 -> "CNV_S8_F4" [] d = 99 -> "CNV_S8_F8"
       [] d = 100 -> "CNV_F4_U8" [] d = 101 -> "CNV_F8_U8" [] d = 102 -> "CNV_F4_S8"
       [] d = 103 -> "CNV_F8_S8" [] d = 104 -> "CNV_F4_F8" [] d = 105 -> "CNV_F8_F4"
       [] d = 106 -> "CALL_EXT"

\* Every arm 0..3 reading into the [0; 1] of the first
PayloadLen_first(d) == 1 + 0 * d

\* The payload length the arms 0..3 read: [0; 1], [0; 2], [0; 4], [0; 8]
PayloadLen(d) == CASE d = 0 -> 1 [] d = 1 -> 2 [] d = 2 -> 4 [] d = 3 -> 8

\* Instruction::from_reader on the stream `bytes` at position p (0-based, as
\* Seek counts).  The result is [err, instruction, pos].  A read_exact that
\* meets the end leaves a Cursor where the read began or at the end of the
\* bytes, depending on the standard library: `drained` chooses.
from_reader(bytes, p, drained) ==
    LET eof(at) == IF drained THEN Len(bytes) ELSE at IN
    IF p >= Len(bytes)
    THEN [err |-> Err("EndOfInstructions"), instruction |-> NoInstruction,
          pos |-> eof(p)]
    ELSE LET discriminant == bytes[p + 1] IN
         IF discriminant \in 0..3
         THEN IF p + 1 + PayloadLen(discriminant) > Len(bytes)
              THEN [err |-> ErrByte("IncompleteInstruction", discriminant),
                    instruction |-> NoInstruction, pos |-> eof(p + 1)]
              ELSE [err |-> Ok,
                    instruction |->
                        Psh(PayloadLen(discriminant),
                            SubSeq(bytes, p + 2, p + 1 + PayloadLen(discriminant))),
                    pos |-> p + 1 + PayloadLen(discriminant)]
         ELSE IF discriminant \in 4..106
         THEN [err |-> Ok, instruction |-> Instr(from_reader_arm(discriminant)),
               pos |-> p + 1]
         ELSE [err |-> ErrByte("UnknownInstruction", discriminant),
               instruction |-> NoInstruction, pos |-> p + 1]

\* InstructionReceiver::instruct, the arms without payload: self.push(n)
instruct_arm(op) ==
    CASE op = "POP_1" -> 4 [] op = "POP_2" -> 5 [] op = "POP_4" -> 6
       [] op = "POP_8" -> 7 [] op = "ALLOC" -> 8 [] op = "COPY_REF" -> 9
       [] op = "SET_CHILD" -> 10 [] op = "GET_CHILD" -> 11 [] op = "MOV_ST_HP_1" -> 12
       [] op = "MOV_ST_HP_2" -> 13 [] op = "MOV_ST_HP_4" -> 14
       [] op = "MOV_ST_HP_8" -> 15 [] op = "MOV_HP_ST_1" -> 16
       [] op = "MOV_HP_ST_2" -> 17 [] op = "MOV_HP_ST_4" -> 18
       [] op = "MOV_HP_ST_8" -> 19 [] op = "JSR" -> 20 [] op = "RET" -> 21
       [] op = "JMP_EQ" -> 22 [] op = "JMP_NE" -> 23 [] op = "JMP_GE" -> 24
       [] op = "JMP_GT" -> 25 [] op = "JMP_LE" -> 26 [] op = "JMP_LT" -> 27
       [] op = "CMP_U_1" -> 28 [] op = "CMP_U_2" -> 29 [] op = "CMP_U_4" -> 30
       [] op = "CMP_U_8" -> 31 [] op = "CMP_S_1" -> 32 [] op = "CMP_S_2" -> 33
       [] op = "CMP_S_4" -> 34 [] op = "CMP_S_8" -> 35 [] op = "CMP_F4" -> 36
       [] op = "CMP_F8" -> 37 [] op = "NOT_1" -> 38 [] op = "NOT_2" -> 39
       [] op = "NOT_4" -> 40 [] op = "NOT_8" -> 41 [] op = "AND_1" -> 42
       [] op = "AND_2" -> 43 [] op = "AND_4" -> 44 [] op = "AND_8" -> 45
       [] op = "OR_1" -> 46 [] op = "OR_2" -> 47 [] op = "OR_4" -> 48
       [] op = "OR_8" -> 49 [] op = "XOR_1" -> 50 [] op = "XOR_2" -> 51
       [] op = "XOR_4" -> 52 [] op = "XOR_8" -> 53 [] op = "SHL_1" -> 54
       [] op = "SHL_2" -> 55 [] op = "SHL_4" -> 56 [] op = "SHL_8" -> 57
       [] op = "SHR_1" -> 58 [] op = "SHR_2" -> 59 [] op = "SHR_4" -> 60
       [] op = "SHR_8" -> 61 [] op = "SAR_1" -> 62 [] op = "SAR_2" -> 63
       [] op = "SAR_4" -> 64 [] op = "SAR_8" -> 65 [] op = "ADD_1" -> 66
       [] op = "ADD_2" -> 67 [] op = "ADD_4" -> 68 [] op = "ADD_8" -> 69
       [] op = "SUB_1" -> 70 [] op = "SUB_2" -> 71 [] op = "SUB_4" -> 72
       [] op = "SUB_8" -> 73 [] op = "MUL_1" -> 74 [] op = "MUL_2" -> 75
       [] op = "MUL_4" -> 76 [] op = "MUL_8" -> 77 [] op = "DIV_REM_U_1" -> 78
       [] op = "DIV_REM_U_2" -> 79 [] op = "DIV_REM_U_4" -> 80
       [] op = "DIV_REM_U_8" -> 81 [] op = "DIV_REM_S_1" -> 82
       [] op = "DIV_REM_S_2" -> 83 [] op = "DIV_REM_S_4" -> 84
       [] op = "DIV_REM_S_8" -> 85 [] op = "ADD_F_4" -> 86 [] op = "ADD_F_8" -> 87
       [] op = "SUB_F_4" -> 88 [] op = "SUB_F_8" -> 89 [] op = "MUL_F_4" -> 90
       [] op = "MUL_F_8" -> 91 [] op = "DIV_F_4" -> 92 [] op = "DIV_F_8" -> 93
       [] op = "REM_F_4" -> 94 [] op = "REM_F_8" -> 95 [] op = "CNV_U8_F4" -> 96
       [] op = "CNV_U8_F8" -> 97 [] op = "CNV_S8_F4" -> 98 [] op = "CNV_S8_F8" -> 99
       [] op = "CNV_F4_U8" -> 100 [] op = "CNV_F8_U8" -> 101 [] op = "CNV_F4_S8" -> 102
       [] op = "CNV_F8_S8" -> 103 [] op = "CNV_F4_F8" -> 104 [] op = "CNV_F8_F4" -> 105
       [] op = "CALL_EXT" -> 106

\* InstructionReceiver for Vec<u8>::instruct: the bytes appended for an instruction
instruct(bytes, instruction) ==
    CASE instruction.op = "PSH_1" -> bytes \o <<0>> \o instruction.value
      [] instruction.op = "PSH_2" -> bytes \o <<1>> \o instruction.value
      [] instruction.op = "PSH_4" -> bytes \o <<2>> \o instruction.value
      [] instruction.op = "PSH_8" -> bytes \o <<3>> \o instruction.value
      [] OTHER -> bytes \o <<instruct_arm(instruction.op)>>

\* InstructionReceiver for Vec<u8>::push_jump_marker: the bytes after the call
\* and the value written to *location (an index into the Vec, 0-based)
push_jump_marker(bytes) ==
    [bytes |-> instruct((bytes \o <<4>>) \o Zeros(8), Instr("JSR")),
     location |-> Len(bytes) + 1]

\* InstructionReceiver for Vec<u8>::assign_jump_marker: address, here its 8
\* to_le_bytes, is copied over self[location..location + 8]
assign_jump_marker(bytes, location, address) ==
    [i \in 1..Len(bytes) |->
        IF i - 1 >= location /\ i - 1 < location + 8 THEN address[i - location] ELSE bytes[i]]

\* InstructionReceiver for Vec<u8>::assign_jump_marker_here
assign_jump_marker_here(bytes, location) ==
    assign_jump_marker(bytes, location, to_le_bytes(Len(bytes), 8))

\* ------------------------------------------------------- possibly_ordering
\* TryFrom<u8> for PossiblyOrdering; "Invalid" stands for Err(InvalidComparisonByte(v))
try_from(value) ==
    CASE value = 0 -> "Unordered"
      [] value = 1 -> "Less"
      [] value = 2 -> "Equal"
      [] value = 3 -> "Greater"
      [] OTHER -> "Invalid"

is_eq(self) == self = "Equal"
is_ne(self) == ~(self = "Equal")
is_lt(self) == self = "Less"
is_gt(self) == self = "Greater"
\* An is_le that is false for Unordered
is_le_ordered(self) == self \in {"Less", "Equal"}
is_le(self) == ~(self = "Greater")
\* An is_ge that is false for Unordered
is_ge_ordered(self) == self \in {"Equal", "Greater"}
is_ge(self) == ~(self = "Less")

\* ----------------------------------------------------------------- machine
\* A pop of a nullable reference that does not look the reference up in the heap
stack_pop_nullable_object_reference_unchecked(s) == pop_u64(s)

\* Machine::stack_pop_nullable_object_reference; val is the reference, 0 for None
stack_pop_nullable_object_reference(s) ==
    LET p == pop_u64(s) IN
    IF Failed(p) THEN p
    ELSE IF new_option(p.val) = 0 THEN p
    ELSE decrement_stack_references(p, p.val)

\* A pop of a required reference that lets the null reference through
stack_pop_object_reference_lenient(s) == stack_pop_nullable_object_reference(s)

\* Machine::stack_pop_object_reference
stack_pop_object_reference(s) ==
    LET p == pop_u64(s)
        r == new_result(p, p.val)
    IN  decrement_stack_references(r, r.val)

\* Seek::seek(SeekFrom::Start(address)) on a Cursor: any position is accepted
seek(s, address) == IF Failed(s) THEN s ELSE [s EXCEPT !.pos = address]

\* The predicate each JMP_<cond> arm of execute hands to jump_instruction_impl!
JumpFun(op, cmp) ==
    CASE op = "JMP_EQ" -> is_eq(cmp)
      [] op = "JMP_NE" -> is_ne(cmp)
      [] op = "JMP_GE" -> is_ge(cmp)
      [] op = "JMP_GT" -> is_gt(cmp)
      [] op = "JMP_LE" -> is_le(cmp)
      [] op = "JMP_LT" -> is_lt(cmp)

\* jump_instruction_impl!
jump_instruction_impl(s, op) ==
    LET b == pop_u8(s)
        cmp == try_from(b.val)
        c == IF Failed(b) THEN b
             ELSE IF cmp = "Invalid" THEN FailByte(b, "InvalidComparisonByte", b.val)
             ELSE b
        a == pop_u64(c)
    IN  IF Failed(a) THEN a
        ELSE IF JumpFun(op, cmp) THEN seek(a, a.val) ELSE a

\* An ALLOC that pops the data length first
ALLOC_data_first(s) ==
    LET data_length == pop_u64(s)
        children_length == pop_u64(data_length)
        obj_ref == allocate(children_length, children_length.val, data_length.val)
    IN  TagTop(push_u64(obj_ref, obj_ref.val))

\* The ALLOC arm of execute
ALLOC(s) ==
    LET children_length == pop_u64(s)
        data_length == pop_u64(children_length)
        obj_ref == allocate(data_length, children_length.val, data_length.val)
    IN  TagTop(push_u64(obj_ref, obj_ref.val))

\* A COPY_REF that pops through stack_pop_object_reference and still
\* increments only once
COPY_REF_popping(s) ==
    LET obj_ref == stack_pop_object_reference(s)
        i == increment_stack_references(obj_ref, obj_ref.val)
    IN  TagTop(push_u64(TagTop(push_u64(i, obj_ref.val)), obj_ref.val))

\* The COPY_REF arm of execute
COPY_REF(s) ==
    LET p == pop_u64(s)
        obj_ref == new_result(p, p.val)
        i == increment_stack_references(obj_ref, obj_ref.val)
    IN  TagTop(push_u64(TagTop(push_u64(i, obj_ref.val)), obj_ref.val))

\* The SET_CHILD arm of execute
SET_CHILD(s) ==
    LET parent == stack_pop_object_reference(s)
        child_index == pop_u64(parent)
        child == stack_pop_nullable_object_reference(child_index)
    IN  set_child(child, parent.val, child_index.val, child.val)

\* A GET_CHILD that pushes the child without counting the new stack reference
GET_CHILD_uncounted(s) ==
    LET parent == stack_pop_object_reference(s)
        child_index == pop_u64(parent)
        g == get_child(child_index, parent.val, child_index.val)
    IN  IF Failed(g) THEN g
        ELSE IF g.val = 0 THEN push_u64(g, 0)
        ELSE TagTop(push_u64(g, g.val))

\* The GET_CHILD arm of execute
GET_CHILD(s) ==
    LET parent == stack_pop_object_reference(s)
        child_index == pop_u64(parent)
        g == get_child(child_index, parent.val, child_index.val)
    IN  IF Failed(g) THEN g
        ELSE IF g.val = 0 THEN push_u64(g, 0)
        ELSE LET i == increment_stack_references(g, g.val)
             IN  TagTop(push_u64(i, g.val))

\* The JSR arm of execute
JSR(s) ==
    LET address == pop_u64(s)
        next_address == s.pos + 1
    IN  seek(push_u64(address, next_address), address.val)

\* The RET arm of execute
RET(s) ==
    LET address == pop_u64(s) IN seek(address, address.val)

\* A store that takes the slice from the beginning of the data
mov_st_hp_instruction_impl_at_zero(s, len) ==
    LET obj_ref == stack_pop_object_reference(s)
        start == stack_pop(obj_ref, u64)
        data == pop_slice(start, len)
        out == get_mut_data_slice(data, obj_ref.val, Zero(usize), len)
    IN  write(out, obj_ref.val, out.val, data.val)

\* mov_st_hp_instruction_impl!
mov_st_hp_instruction_impl(s, len) ==
    LET obj_ref == stack_pop_object_reference(s)
        start == stack_pop(obj_ref, u64)
        data == pop_slice(start, len)
        out == get_mut_data_slice(data, obj_ref.val, start.val, len)
    IN  write(out, obj_ref.val, out.val, data.val)

\* mov_hp_st_instruction_impl!
mov_hp_st_instruction_impl(s, len) ==
    LET obj_ref == stack_pop_object_reference(s)
        start == stack_pop(obj_ref, u64)
        data == get_data_slice(start, obj_ref.val, start.val, len)
    IN  push_slice(data, data.val)

\* two_argument_instruction_impl!($self, $a_type $op $b_type = $result_type):
\* an operation that overflows panics in a build with overflow checks
two_argument_instruction_impl(s, a_type, op, b_type, result_type) ==
    LET a == stack_pop(s, a_type)
        b == stack_pop(a, b_type)
        r == BinaryOp(op, a_type, a.val, b.val)
    IN  IF Failed(b) THEN b
        ELSE IF r.overflow /\ s.overflow_checks THEN Fail(b, "panic")
        ELSE stack_push(b, result_type, r.value)

\* shift_instruction_impl!
shift_instruction_impl(s, typ, op) == two_argument_instruction_impl(s, typ, op, u8, typ)

\* compare_instruction_impl!
compare_instruction_impl(s, typ) ==
    LET a == stack_pop(s, typ)
        b == stack_pop(a, typ)
    IN  IF Failed(b) THEN b
        ELSE push_u8(b, as_u8(partial_cmp(typ, a.val, b.val)))

\* div_rem_instruction_impl!
div_rem_instruction_impl_swapped(s, typ) ==
    LET a == stack_pop(s, typ)
        b == stack_pop(a, typ)
        q == infallible_div(typ, b.val, a.val)
        r == infallible_rem(typ, b.val, a.val)
    IN  IF Failed(b) THEN b
        ELSE IF q.panic THEN Fail(b, "panic")
        ELSE stack_push(stack_push(b, typ, q.value), typ, r.value)

div_rem_instruction_impl(s, typ) ==
    LET a == stack_pop(s, typ)
        b == stack_pop(a, typ)
        q == infallible_div(typ, a.val, b.val)
        r == infallible_rem(typ, a.val, b.val)
    IN  IF Failed(b) THEN b
        ELSE IF q.panic THEN Fail(b, "panic")
        ELSE stack_push(stack_push(b, typ, q.value), typ, r.value)

\* Machine::execute
execute(s, instruction) ==
    LET op == instruction.op IN
    CASE op \in {"PSH_1", "PSH_2", "PSH_4", "PSH_8"} -> push_slice(s, instruction.value)
      [] op = "POP_1" -> remove_top(s, 1)
      [] op = "POP_2" -> remove_top(s, 2)
      [] op = "POP_4" -> remove_top(s, 4)
      [] op = "POP_8" -> remove_top(s, 8)
      [] op = "ALLOC" -> ALLOC(s)
      [] op = "COPY_REF" -> COPY_REF(s)
      [] op = "SET_CHILD" -> SET_CHILD(s)
      [] op = "GET_CHILD" -> GET_CHILD(s)
      [] op = "MOV_ST_HP_1" -> mov_st_hp_instruction_impl(s, 1)
      [] op = "MOV_ST_HP_2" -> mov_st_hp_instruction_impl(s, 2)
      [] op = "MOV_ST_HP_4" -> mov_st_hp_instruction_impl(s, 4)
      [] op = "MOV_ST_HP_8" -> mov_st_hp_instruction_impl(s, 8)
      [] op = "MOV_HP_ST_1" -> mov_hp_st_instruction_impl(s, 1)
      [] op = "MOV_HP_ST_2" -> mov_hp_st_instruction_impl(s, 2)
      [] op = "MOV_HP_ST_4" -> mov_hp_st_instruction_impl(s, 4)
      [] op = "MOV_HP_ST_8" -> mov_hp_st_instruction_impl(s, 8)
      [] op = "CMP_U_1" -> compare_instruction_impl(s, u8)
      [] op = "CMP_U_2" -> compare_instruction_impl(s, u16)
      [] op = "CMP_U_4" -> compare_instruction_impl(s, u32)
      [] op = "CMP_U_8" -> compare_instruction_impl(s, u64)
      [] op = "CMP_S_1" -> compare_instruction_impl(s, i8)
      [] op = "CMP_S_2" -> compare_instruction_impl(s, i16)
      [] op = "CMP_S_4" -> compare_instruction_impl(s, i32)
      [] op = "CMP_S_8" -> compare_instruction_impl(s, i64)
      [] op = "CMP_F4" -> compare_instruction_impl(s, f32)
      [] op = "CMP_F8" -> compare_instruction_impl(s, f64)
      [] op = "SHL_1" -> shift_instruction_impl(s, u8, "<<")
      [] op = "SHL_2" -> shift_instruction_impl(s, u16, "<<")
      [] op = "SHL_4" -> shift_instruction_impl(s, u32, "<<")
      [] op = "SHL_8" -> shift_instruction_impl(s, u64, "<<")
      [] op = "SHR_1" -> shift_instruction_impl(s, u8, ">>")
      [] op = "SHR_2" -> shift_instruction_impl(s, u16, ">>")
      [] op = "SHR_4" -> shift_instruction_impl(s, u32, ">>")
      [] op = "SHR_8" -> shift_instruction_impl(s, u64, ">>")
      [] op = "SAR_1" -> shift_instruction_impl(s, i8, ">>")
      [] op = "SAR_2" -> shift_instruction_impl(s, i16, ">>")
      [] op = "SAR_4" -> shift_instruction_impl(s, u32, ">>")
      [] op = "SAR_8" -> shift_instruction_impl(s, u64, ">>")
      [] op = "ADD_1" -> two_argument_instruction_impl(s, u8, "+", u8, u8)
      [] op = "ADD_2" -> two_argument_instruction_impl(s, u16, "+", u16, u16)
      [] op = "ADD_4" -> two_argument_instruction_impl(s, u32, "+", u32, u32)
      [] op = "ADD_8" -> two_argument_instruction_impl(s, u64, "+", u64, u64)
      [] op = "SUB_1" -> two_argument_instruction_impl(s, u8, "-", u8, u8)
      [] op = "SUB_2" -> two_argument_instruction_impl(s, u16, "-", u16, u16)
      [] op = "SUB_4" -> two_argument_instruction_impl(s, u32, "-", u32, u32)
      [] op = "SUB_8" -> two_argument_instruction_impl(s, u64, "-", u64, u64)
      [] op = "MUL_1" -> two_argument_instruction_impl(s, u8, "*", u8, u8)
      [] op = "MUL_2" -> two_argument_instruction_impl(s, u16, "*", u16, u16)
      [] op = "MUL_4" -> two_argument_instruction_impl(s, u32, "*", u32, u32)
      [] op = "MUL_8" -> two_argument_instruction_impl(s, u64, "*", u64, u64)
      [] op = "DIV_REM_U_1" -> div_rem_instruction_impl(s, u8)
      [] op = "DIV_REM_U_2" -> div_rem_instruction_impl(s, u16)
      [] op = "DIV_REM_U_4" -> div_rem_instruction_impl(s, u32)
      [] op = "DIV_REM_U_8" -> div_rem_instruction_impl(s, u64)
      [] op = "DIV_REM_S_1" -> div_rem_instruction_impl(s, i8)
      [] op = "DIV_REM_S_2" -> div_rem_instruction_impl(s, i16)
      [] op = "DIV_REM_S_4" -> div_rem_instruction_impl(s, i32)
      [] op = "DIV_REM_S_8" -> div_rem_instruction_impl(s, i64)
      [] op = "JSR" -> JSR(s)
      [] op = "RET" -> RET(s)
      [] op \in {"JMP_EQ", "JMP_NE", "JMP_GE", "JMP_GT", "JMP_LE", "JMP_LT"} ->
            jump_instruction_impl(s, op)
      [] op = "CALL_EXT" -> Fail(s, "panic")

\* The opcodes execute is modelled for
Executable ==
    {"PSH_1", "PSH_2", "PSH_4", "PSH_8", "POP_1", "POP_2", "POP_4", "POP_8",
     "ALLOC", "COPY_REF", "SET_CHILD", "GET_CHILD",
     "MOV_ST_HP_1", "MOV_ST_HP_2", "MOV_ST_HP_4", "MOV_ST_HP_8",
     "MOV_HP_ST_1", "MOV_HP_ST_2", "MOV_HP_ST_4", "MOV_HP_ST_8",
     "CMP_U_1", "CMP_U_2", "CMP_U_4", "CMP_U_8",
     "CMP_S_1", "CMP_S_2", "CMP_S_4", "CMP_S_8", "CMP_F4", "CMP_F8",
     "SHL_1", "SHL_2", "SHL_4", "SHL_8", "SHR_1", "SHR_2", "SHR_4", "SHR_8",
     "SAR_1", "SAR_2", "SAR_4", "SAR_8",
     "ADD_1", "ADD_2", "ADD_4", "ADD_8", "SUB_1", "SUB_2", "SUB_4", "SUB_8",
     "MUL_1", "MUL_2", "MUL_4", "MUL_8",
     "DIV_REM_U_1", "DIV_REM_U_2", "DIV_REM_U_4", "DIV_REM_U_8",
     "DIV_REM_S_1", "DIV_REM_S_2", "DIV_REM_S_4", "DIV_REM_S_8", "JSR", "RET",
     "JMP_EQ", "JMP_NE", "JMP_GE", "JMP_GT", "JMP_LE", "JMP_LT", "CALL_EXT"}

\* The u64 in the top 8 bytes of a stack
TopU64(bytes) == from_le_bytes(SubSeq(bytes, Len(bytes) - 7, Len(bytes)))

\* The machine as one record, for the operators above, and back
Machine ==
    [stack |-> stack, tags |-> tags, counter |-> counter,
     reference_map |-> reference_map, pos |-> pos, err |-> Ok, val |-> 0,
     overflow_checks |-> overflow_checks]

Store(s, op) ==
    /\ stack' = s.stack
    /\ tags' = s.tags
    /\ counter' = s.counter
    /\ reference_map' = s.reference_map
    /\ pos' = s.pos
    /\ result' = s.err
    /\ last' = op
    /\ before' = <<>>
    /\ allocated' = IF op.op = "ALLOC" /\ ~Failed(s)
                    THEN Append(allocated, TopU64(s.stack))
                    ELSE allocated
    /\ UNCHANGED <<instructions, overflow_checks>>

\* ------------------------------------------------- Spec: Machine::execute
\* The host hands execute any instruction of ExecInstrs, and may run the
\* collector between two instructions.  It stops at the first error
\* (main.rs: the loop panics on Err).
ExecInstrs ==
    {Psh(8, to_le_bytes(v, 8)) : v \in 0..MaxVal}
        \cup {Instr(op) : op \in {"POP_8", "ALLOC", "COPY_REF", "SET_CHILD", "GET_CHILD"}}

Init ==
    /\ instructions = <<>>
    /\ pos = 0
    /\ stack = <<>>
    /\ tags = <<>>
    /\ counter = NonZeroU64(1)
    /\ reference_map = <<>>
    /\ result = Ok
    /\ last = NoInstruction
    /\ before = <<>>
    /\ allocated = <<>>
    /\ overflow_checks \in BOOLEAN

\* The machine a step leaves stays within the bounds
WithinBounds(s) ==
    /\ Len(s.stack) <= 8 * MaxSlots
    /\ \A r \in DOMAIN s.reference_map :
            /\ s.reference_map[r].stack_references <= MaxRefs
            /\ Len(s.reference_map[r].children) <= MaxChildren
            /\ Len(s.reference_map[r].data) <= MaxData

StoreWithinBounds(s, op) == WithinBounds(s) /\ Store(s, op)

Execute(instruction) ==
    /\ result = Ok
    /\ instruction.op = "ALLOC" => from_le_bytes(counter) <= MaxAllocs
    /\ StoreWithinBounds(execute(Machine, instruction), instruction)

CollectGarbage ==
    /\ result = Ok
    /\ \E root_objects \in Orders(Roots(reference_map)) :
        LET c == collect_garbage(reference_map, root_objects) IN
        /\ reference_map' = c.map
        /\ result' = IF c.panicked THEN Err("panic") ELSE Ok
    /\ last' = Instr("collect_garbage")
    /\ before' = reference_map
    /\ UNCHANGED <<instructions, pos, stack, tags, counter, allocated, overflow_checks>>

Next ==
    \/ \E instruction \in ExecInstrs : Execute(instruction)
    \/ CollectGarbage

Spec == Init /\ [][Next]_vars

\* ------------------------------ SpecUnforged: execute on its own references
\* The runs of Spec in which every 8-byte value an instruction takes as an
\* object reference (the top of the stack for COPY_REF, GET_CHILD and
\* SET_CHILD, and the third slot, the nullable child, for a SET_CHILD whose
\* parent is not null) was pushed as one by ALLOC, COPY_REF or GET_CHILD, or is
\* the null reference.  A stack too short for the slot has no such value.
SlotTagged(n) ==
    Len(stack) >= 8 * n =>
        \/ Len(stack) - 8 * n + 1 \in
              {i \in 1..(Len(stack) - 7) : \A k \in 1..8 : tags[i + k - 1] = k}
        \/ SubSeq(stack, Len(stack) - 8 * n + 1, Len(stack) - 8 * n + 8) = Zeros(8)

Unforged(instruction) ==
    CASE instruction.op \in {"COPY_REF", "GET_CHILD"} -> SlotTagged(1)
      [] instruction.op = "SET_CHILD" ->
            /\ SlotTagged(1)
            /\ (Len(stack) >= 8 /\ SubSeq(stack, Len(stack) - 7, Len(stack)) # Zeros(8))
                    => SlotTagged(3)
      [] OTHER -> TRUE

\* The stack may grow to MaxOwnSlots slots: a reference kept below the three
\* operands of a SET_CHILD whose parent the two operands of ALLOC precede
MaxOwnSlots == 5

StoreUnforged(s, op) ==
    /\ Len(s.stack) <= 8 * MaxOwnSlots
    /\ \A r \in DOMAIN s.reference_map :
            /\ s.reference_map[r].stack_references <= MaxRefs
            /\ Len(s.reference_map[r].children) <= MaxChildren
            /\ Len(s.reference_map[r].data) <= MaxData
    /\ Store(s, op)

ExecuteUnforged(instruction) ==
    /\ result = Ok
    /\ Unforged(instruction)
    /\ instruction.op = "ALLOC" => from_le_bytes(counter) <= MaxAllocs
    /\ StoreUnforged(execute(Machine, instruction), instruction)

NextUnforged ==
    \/ \E instruction \in ExecInstrs : ExecuteUnforged(instruction)
    \/ CollectGarbage

SpecUnforged == Init /\ [][NextUnforged]_vars

\* ---------------------------------------------- SpecStep: Machine::step
\* The host loop of main.rs over an assembled program: step until an error or
\* the end of the instructions, or until the stack has outgrown the ceiling;
\* the host may run the collector between two steps.

\* main.rs: `if machine.stack.size() > 100` ends the loop
StackCeiling == 100

\* Largest comparison byte the jump programs push.
MaxCmp == 5

\* instructions.instruct(i1).instruct(i2)... on an empty Vec
RECURSIVE Assemble(_)
Assemble(is) ==
    IF is = <<>> THEN <<>> ELSE instruct(Assemble(SubSeq(is, 1, Len(is) - 1)), is[Len(is)])

Psh8(v) == Psh(8, to_le_bytes(v, 8))

\* PSH_8(target) PSH_1(cmp) JMP_<cond> PSH_1(1) PSH_1(2): the jump opcode is byte
\* 11, the two pushes after it start at 12 and 14, the program ends at 16.
JmpProgram(op, cmp, target) ==
    Assemble(<<Psh8(target), Psh(1, <<cmp>>), Instr(op),
               Psh(1, <<1>>), Psh(1, <<2>>)>>)

JmpOps == {"JMP_EQ", "JMP_NE", "JMP_GE", "JMP_GT", "JMP_LE", "JMP_LT"}
JmpTargets == {0, 12, 14, 16, 20}

\* PSH_8(target) JSR PSH_1(x) RET: JSR is byte 9, the push after it bytes 10 and
\* 11, RET byte 12, the program ends at 13.
JsrProgram(target, x) ==
    Assemble(<<Psh8(target), Instr("JSR"), Psh(1, <<x>>), Instr("RET")>>)

JsrTargets == {12, 13}
JsrBytes == {0, 4}

\* A counted copy of the reference r on top of the stack: the stack has no
\* instruction that copies a slot below the top.
LoadRef(r) == <<Psh8(r), Instr("COPY_REF"), Instr("POP_8")>>

\* The collector scenario: allocate A and B with one child slot each (they get
\* the references 1 and 2), SET_CHILD A.0 <- B, SET_CHILD B.0 <- A with counted
\* operands, then POP_8 POP_8 of the two references the allocations left.
CycleProgram ==
    Assemble(<<Psh8(0), Psh8(1), Instr("ALLOC"),
               Psh8(0), Psh8(1), Instr("ALLOC")>>
             \o LoadRef(2) \o <<Psh8(0)>> \o LoadRef(1) \o <<Instr("SET_CHILD")>>
             \o LoadRef(1) \o <<Psh8(0)>> \o LoadRef(2) \o <<Instr("SET_CHILD")>>
             \o <<Instr("POP_8"), Instr("POP_8")>>)

Programs ==
    {JmpProgram(op, cmp, target) : op \in JmpOps, cmp \in 0..MaxCmp, target \in JmpTargets}
        \cup {JsrProgram(target, x) : target \in JsrTargets, x \in JsrBytes}
        \cup {CycleProgram}

InitStep ==
    /\ instructions \in Programs
    /\ pos = 0
    /\ stack = <<>>
    /\ tags = <<>>
    /\ counter = NonZeroU64(1)
    /\ reference_map = <<>>
    /\ result = Ok
    /\ last = NoInstruction
    /\ before = <<>>
    /\ allocated = <<>>
    /\ overflow_checks \in BOOLEAN

\* Machine::step: from_reader, then execute
Step ==
    /\ result = Ok
    /\ Len(stack) <= StackCeiling
    /\ \E drained \in BOOLEAN :
        LET f == from_reader(instructions, pos, drained) IN
        IF f.err # Ok
        THEN /\ pos' = f.pos
             /\ result' = f.err
             /\ last' = f.instruction
             /\ before' = <<>>
             /\ UNCHANGED <<instructions, stack, tags, counter, reference_map, allocated,
                            overflow_checks>>
        ELSE Store(execute([Machine EXCEPT !.pos = f.pos], f.instruction), f.instruction)

NextStep ==
    \/ Step
    \/ CollectGarbage

SpecStep == InitStep /\ [][NextStep]_vars

\* ------------------------------------------- SpecHeap: programs on objects
\* Machine::step over programs that allocate one object and store to, load
\* from and link it; the host may run the collector between two steps.

\* Largest data length and largest start offset of the programs
MaxLen == 10
MaxStart == 2

Widths == {1, 2, 4, 8}

MovStHp(W) == Instr(CASE W = 1 -> "MOV_ST_HP_1" [] W = 2 -> "MOV_ST_HP_2"
                      [] W = 4 -> "MOV_ST_HP_4" [] W = 8 -> "MOV_ST_HP_8")
MovHpSt(W) == Instr(CASE W = 1 -> "MOV_HP_ST_1" [] W = 2 -> "MOV_HP_ST_2"
                      [] W = 4 -> "MOV_HP_ST_4" [] W = 8 -> "MOV_HP_ST_8")

\* Two data patterns of W bytes, all bytes different and none zero
DataA(W) == [i \in 1..W |-> 16 * i + W]
DataB(W) == [i \in 1..W |-> 255 - i]

\* ALLOC of an object with c child slots and d data bytes (it gets the
\* reference 1), then n COPY_REF: n + 1 references on the stack, counted.
Prologue(c, d, n) ==
    <<Psh8(d), Psh8(c), Instr("ALLOC")>> \o [i \in 1..n |-> Instr("COPY_REF")]

\* Store DataA at s1, store DataB at s2, load from s3; the reference operand
\* of each is the number 1 pushed by PSH_8.
StoreLoadProgram(W, d, s1, s2, s3) ==
    Assemble(Prologue(0, d, 2)
             \o <<Psh(W, DataA(W)), Psh8(s1), Psh8(1), MovStHp(W)>>
             \o <<Psh(W, DataB(W)), Psh8(s2), Psh8(1), MovStHp(W)>>
             \o <<Psh8(s3), Psh8(1), MovHpSt(W)>>)

\* PSH_8(start) PSH_8(c) PSH_8(d) ALLOC MOV_HP_ST_4, and the same with the two
\* lengths pushed in the other order: the load takes the reference ALLOC pushed.
AllocLoadProgram(c, d) ==
    Assemble(<<Psh8(0), Psh8(c), Psh8(d), Instr("ALLOC"), MovHpSt(4)>>)

\* SET_CHILD 1.0 <- 1, GET_CHILD 1.0, SET_CHILD 1.0 <- null, GET_CHILD 1.0
NullChildProgram ==
    Assemble(Prologue(1, 0, 3)
             \o <<Psh8(0), Psh8(1), Instr("SET_CHILD")>>
             \o <<Psh8(0), Psh8(1), Instr("GET_CHILD")>>
             \o <<Psh8(0), Psh8(0), Psh8(1), Instr("SET_CHILD")>>
             \o <<Psh8(0), Psh8(1), Instr("GET_CHILD")>>)

\* An object, then the opcode with the null reference as its reference (for
\* SET_CHILD and GET_CHILD: parent) operand.
NullOps ==
    {"COPY_REF", "SET_CHILD", "GET_CHILD",
     "MOV_ST_HP_1", "MOV_ST_HP_2", "MOV_ST_HP_4", "MOV_ST_HP_8",
     "MOV_HP_ST_1", "MOV_HP_ST_2", "MOV_HP_ST_4", "MOV_HP_ST_8"}

NullProgram(op, d) ==
    Assemble(Prologue(1, d, 1)
             \o <<Psh8(1), Psh8(0), Psh8(0), Instr(op)>>)

\* An object with a child and two bytes of data written, then a second ALLOC
\* of c2 child slots and d2 data bytes
MaxSecond == 3

TwoAllocProgram(d1, c2, d2) ==
    Assemble(Prologue(1, d1, 3)
             \o <<Psh8(0), Psh8(1), Instr("SET_CHILD")>>
             \o <<Psh(2, DataA(2)), Psh8(0), Psh8(1), MovStHp(2)>>
             \o <<Psh8(d2), Psh8(c2), Instr("ALLOC")>>)

\* An object of c child slots referenced four times, then SET_CHILD or
\* GET_CHILD on its slot index: the parent operand is the number 1 pushed by
\* PSH_8, the child operand of SET_CHILD the reference below
ChildOps == {"SET_CHILD", "GET_CHILD"}

ChildIndexProgram(op, c, index) ==
    Assemble(Prologue(c, 0, 3) \o <<Psh8(index), Psh8(1), Instr(op)>>)

\* A load and a store of W bytes at a start given by its 8 bytes: usize::MAX,
\* usize::MAX - W + 1 (the sum wraps to 0), 2^63 and 2^32
HugeStarts(W) ==
    {[i \in 1..8 |-> 255], [i \in 1..8 |-> IF i = 1 THEN 256 - W ELSE 255],
     [i \in 1..8 |-> IF i = 8 THEN 128 ELSE 0], [i \in 1..8 |-> IF i = 5 THEN 1 ELSE 0]}

HugeLoadProgram(W, d, start) ==
    Assemble(Prologue(0, d, 1) \o <<Psh(8, start), Psh8(1), MovHpSt(W)>>)

HugeStoreProgram(W, d, start) ==
    Assemble(Prologue(0, d, 1)
             \o <<Psh(W, DataA(W)), Psh(8, start), Psh8(1), MovStHp(W)>>)

HeapPrograms ==
    {StoreLoadProgram(W, d, s1, s2, s3) :
        W \in Widths, d \in 0..MaxLen, s1 \in 0..MaxStart, s2 \in 0..MaxStart,
        s3 \in 0..MaxStart}
        \cup {AllocLoadProgram(c, d) : c \in 0..MaxLen, d \in 0..MaxLen}
        \cup {NullProgram(op, d) : op \in NullOps, d \in 0..MaxLen}
        \cup {NullChildProgram}
        \cup {TwoAllocProgram(d1, c2, d2) :
                d1 \in {2, 3}, c2 \in 0..MaxSecond, d2 \in 0..MaxSecond}
        \cup {ChildIndexProgram(op, c, index) :
                op \in ChildOps, c \in 0..MaxStart, index \in 0..MaxSecond}
        \cup UNION {{HugeLoadProgram(W, d, start) : d \in {0, 8, MaxLen},
                                                    start \in HugeStarts(W)} : W \in Widths}
        \cup UNION {{HugeStoreProgram(W, d, start) : d \in {0, 8, MaxLen},
                                                     start \in HugeStarts(W)} : W \in Widths}

InitHeap ==
    /\ instructions \in HeapPrograms
    /\ pos = 0
    /\ stack = <<>>
    /\ tags = <<>>
    /\ counter = NonZeroU64(1)
    /\ reference_map = <<>>
    /\ result = Ok
    /\ last = NoInstruction
    /\ before = <<>>
    /\ allocated = <<>>
    /\ overflow_checks \in BOOLEAN

NextHeap ==
    \/ Step
    \/ CollectGarbage

SpecHeap == InitHeap /\ [][NextHeap]_vars

\* --------------------------------------- SpecArith: programs on integers
\* Machine::step over the programs PSH_W(x) PSH_W(y) <op>, <op> an integer
\* instruction of width W, and PSH_1(n) PSH_W(v) SAR_W.  These programs
\* allocate nothing, so the heap stays empty.

Unsigned(W) == CASE W = 1 -> u8 [] W = 2 -> u16 [] W = 4 -> u32 [] W = 8 -> u64
Signed(W) == CASE W = 1 -> i8 [] W = 2 -> i16 [] W = 4 -> i32 [] W = 8 -> i64

Suffix(W) == CASE W = 1 -> "_1" [] W = 2 -> "_2" [] W = 4 -> "_4" [] W = 8 -> "_8"

AddOp(W) == "ADD" \o Suffix(W)
SubOp(W) == "SUB" \o Suffix(W)
MulOp(W) == "MUL" \o Suffix(W)
DivRemUOp(W) == "DIV_REM_U" \o Suffix(W)
DivRemSOp(W) == "DIV_REM_S" \o Suffix(W)
SarOp(W) == "SAR" \o Suffix(W)

\* The operands pushed, as the W payload bytes of a PSH_W: the small values
\* 0, 1, 3, 7 and 10, and the values of all bits set (the unsigned MAX, the
\* signed -1), of the top bit alone (the signed MIN), of all bits but the
\* top one (the signed MAX), and the bytes 11 22 .. (hexadecimal).
SmallValues == {0, 1, 3, 7, 10}
Small(v, W) == [i \in 1..W |-> IF i = 1 THEN v ELSE 0]
AllOnes(W) == [i \in 1..W |-> 255]
TopBit(W) == [i \in 1..W |-> IF i = W THEN 128 ELSE 0]
AllButTop(W) == [i \in 1..W |-> IF i = W THEN 127 ELSE 255]
Mixed(W) == [i \in 1..W |-> 17 * i]
Operands(W) ==
    {Small(v, W) : v \in SmallValues} \cup {AllOnes(W), TopBit(W), AllButTop(W), Mixed(W)}

\* The shift counts pushed: below the width, the width itself, and 255
ShiftCounts(W) == {0, 1, 7, 8 * W - 1, 8 * W, 255}

ArithOps(W) == {AddOp(W), SubOp(W), MulOp(W), DivRemUOp(W), DivRemSOp(W)}

ArithProgram(op, W, x, y) == Assemble(<<Psh(W, x), Psh(W, y), Instr(op)>>)
ShiftProgram(W, n, v) == Assemble(<<Psh(1, <<n>>), Psh(W, v), Instr(SarOp(W))>>)

\* The comparisons: the integer ones on the operands above, the float ones on
\* the encodings of the two zeros, 1.0, -1.0, 2.5, the smallest subnormal, the
\* two infinities, and three NaNs (quiet, negative quiet, signalling)
CmpUOp(W) == "CMP_U" \o Suffix(W)
CmpSOp(W) == "CMP_S" \o Suffix(W)
CmpFOp(W) == IF W = 4 THEN "CMP_F4" ELSE "CMP_F8"
ShlOp(W) == "SHL" \o Suffix(W)
ShrOp(W) == "SHR" \o Suffix(W)

FloatWidths == {4, 8}

\* The bytes of a float with the given low byte and two top bytes
FloatBytes(W, low, high, top) ==
    [i \in 1..W |-> IF i = W THEN top ELSE IF i = W - 1 THEN high
                                     ELSE IF i = 1 THEN low ELSE 0]

FloatOperands(W) ==
    IF W = 4
    THEN {FloatBytes(4, 0, 0, 0), FloatBytes(4, 0, 0, 128), FloatBytes(4, 0, 128, 63),
          FloatBytes(4, 0, 128, 191), FloatBytes(4, 0, 32, 64), FloatBytes(4, 1, 0, 0),
          FloatBytes(4, 0, 128, 127), FloatBytes(4, 0, 128, 255),
          FloatBytes(4, 0, 192, 127), FloatBytes(4, 0, 192, 255),
          FloatBytes(4, 1, 128, 127)}
    ELSE {FloatBytes(8, 0, 0, 0), FloatBytes(8, 0, 0, 128), FloatBytes(8, 0, 240, 63),
          FloatBytes(8, 0, 240, 191), FloatBytes(8, 0, 4, 64), FloatBytes(8, 1, 0, 0),
          FloatBytes(8, 0, 240, 127), FloatBytes(8, 0, 240, 255),
          FloatBytes(8, 0, 248, 127), FloatBytes(8, 0, 248, 255),
          FloatBytes(8, 1, 240, 127)}

CmpPrograms ==
    UNION {{ArithProgram(op, W, x, y) : op \in {CmpUOp(W), CmpSOp(W)}, x \in Operands(W),
                                        y \in Operands(W)} : W \in Widths}
        \cup UNION {{ArithProgram(CmpFOp(W), W, x, y) : x \in FloatOperands(W),
                                                       y \in FloatOperands(W)} :
                        W \in FloatWidths}

\* PSH_1(n) PSH_W(v) op: a shift of v by n
ShiftOpProgram(op, W, n, v) == Assemble(<<Psh(1, <<n>>), Psh(W, v), Instr(op)>>)

\* PSH_1(v) CALL_EXT
CallExtProgram(v) == Assemble(<<Psh(1, <<v>>), Instr("CALL_EXT")>>)

ArithPrograms ==
    UNION {{ArithProgram(op, W, x, y) : op \in ArithOps(W), x \in Operands(W),
                                        y \in Operands(W)} : W \in Widths}
        \cup UNION {{ShiftProgram(W, n, v) : n \in ShiftCounts(W), v \in Operands(W)} :
                        W \in Widths}
        \cup UNION {{ShiftOpProgram(op, W, n, v) : op \in {ShlOp(W), ShrOp(W)},
                        n \in ShiftCounts(W), v \in Operands(W)} : W \in Widths}
        \cup CmpPrograms
        \cup {CallExtProgram(v) : v \in SmallValues}

InitArith ==
    /\ instructions \in ArithPrograms
    /\ pos = 0
    /\ stack = <<>>
    /\ tags = <<>>
    /\ counter = NonZeroU64(1)
    /\ reference_map = <<>>
    /\ result = Ok
    /\ last = NoInstruction
    /\ before = <<>>
    /\ allocated = <<>>
    /\ overflow_checks \in BOOLEAN

NextArith == Step

SpecArith == InitArith /\ [][NextArith]_vars

\* ------------------------------------ SpecDecode: Instruction::from_reader
\* from_reader applied again and again to a Cursor over a byte stream: one
\* discriminant byte of any value, then up to MaxPayload further bytes.

MaxPayload == 8

\* The bytes after the discriminant: all PSH_1 discriminants or all POP_8 ones
FillerBytes == {0, 7}

DecodeStreams ==
    {<<>>} \cup {<<d>> \o [i \in 1..n |-> b] :
                    d \in 0..255, n \in 0..MaxPayload, b \in FillerBytes}

InitDecode ==
    /\ instructions \in DecodeStreams
    /\ pos = 0
    /\ stack = <<>>
    /\ tags = <<>>
    /\ counter = NonZeroU64(1)
    /\ reference_map = <<>>
    /\ result = Ok
    /\ last = NoInstruction
    /\ before = <<>>
    /\ allocated = <<>>
    /\ overflow_checks \in BOOLEAN

\* Instruction::from_reader(&mut cursor)
Decode ==
    /\ result = Ok
    /\ \E drained \in BOOLEAN :
        LET f == from_reader(instructions, pos, drained) IN
        /\ pos' = f.pos
        /\ result' = f.err
        /\ last' = f.instruction
    /\ UNCHANGED <<instructions, stack, tags, counter, reference_map, before, allocated,
                   overflow_checks>>

NextDecode == Decode

SpecDecode == InitDecode /\ [][NextDecode]_vars

\* --------------------- SpecCodec: InstructionReceiver::instruct, then decode
\* One instruction, any of the 107, is written to an empty Vec<u8> by instruct
\* and the bytes are read back by from_reader.

\* The payload bytes of the PSH_n instructions that are encoded
CodecBytes == {0, 3, 255}

Instructions ==
    {Instr(Instruction[i]) : i \in 5..Len(Instruction)}
        \cup UNION {{Psh(n, value) : value \in [1..n -> CodecBytes]} : n \in {1, 2, 4, 8}}

InitCodec ==
    /\ instructions = <<>>
    /\ pos = 0
    /\ stack = <<>>
    /\ tags = <<>>
    /\ counter = NonZeroU64(1)
    /\ reference_map = <<>>
    /\ result = Ok
    /\ last \in Instructions
    /\ before = <<>>
    /\ allocated = <<>>
    /\ overflow_checks \in BOOLEAN

\* Vec::new().instruct(last)
Encode ==
    /\ instructions = <<>>
    /\ result = Ok
    /\ instructions' = instruct(instructions, last)
    /\ UNCHANGED <<pos, stack, tags, counter, reference_map, result, last, before, allocated,
                   overflow_checks>>

NextCodec ==
    \/ Encode
    \/ Decode

SpecCodec == InitCodec /\ [][NextCodec]_vars

\* ------------------------------------------- SpecOrdering: PossiblyOrdering
\* A host converts a byte into a PossiblyOrdering with try_from, queries the
\* ordering with the six predicates, and converts it back with `as u8'.
\* `instructions' holds the byte, `before' the ordering try_from returned,
\* `last' the last call with what it returned, `stack' the byte `as u8' gave.
Predicates == {"is_eq", "is_ne", "is_lt", "is_gt", "is_le", "is_ge"}

Predicate(name, self) ==
    CASE name = "is_eq" -> is_eq(self)
      [] name = "is_ne" -> is_ne(self)
      [] name = "is_lt" -> is_lt(self)
      [] name = "is_gt" -> is_gt(self)
      [] name = "is_le" -> is_le(self)
      [] name = "is_ge" -> is_ge(self)

InitOrdering ==
    /\ instructions \in {<<b>> : b \in 0..255}
    /\ pos = 0
    /\ stack = <<>>
    /\ tags = <<>>
    /\ counter = NonZeroU64(1)
    /\ reference_map = <<>>
    /\ result = Ok
    /\ last = NoInstruction
    /\ before = <<>>
    /\ allocated = <<>>
    /\ overflow_checks \in BOOLEAN

TryFrom ==
    /\ before = <<>>
    /\ result = Ok
    /\ before' = <<try_from(instructions[1])>>
    /\ result' = IF try_from(instructions[1]) = "Invalid"
                  THEN ErrByte("InvalidComparisonByte", instructions[1]) ELSE Ok
    /\ last' = [op |-> "try_from", value |-> <<try_from(instructions[1])>>]
    /\ UNCHANGED <<instructions, pos, stack, tags, counter, reference_map, allocated,
                   overflow_checks>>

Query(name) ==
    /\ before # <<>>
    /\ result = Ok
    /\ last' = [op |-> name, value |-> <<Predicate(name, before[1])>>]
    /\ UNCHANGED <<instructions, pos, stack, tags, counter, reference_map, result, before,
                   allocated, overflow_checks>>

AsU8 ==
    /\ before # <<>>
    /\ result = Ok
    /\ stack' = <<as_u8(before[1])>>
    /\ tags' = <<0>>
    /\ last' = [op |-> "as_u8", value |-> <<as_u8(before[1])>>]
    /\ UNCHANGED <<instructions, pos, counter, reference_map, result, before, allocated,
                   overflow_checks>>

NextOrdering ==
    \/ TryFrom
    \/ \E name \in Predicates : Query(name)
    \/ AsU8

SpecOrdering == InitOrdering /\ [][NextOrdering]_vars

\* ---------------------------------------- SpecStack: ComputeStack for Vec<u8>
\* A host calls the functions of ComputeStack on a Vec<u8>.  `last' is the
\* call, its type, its argument and what it returned; `before' is the stack
\* the call was made on.  A call that returned Underflow may be followed by
\* any other call.  A push is made on a stack of at most MaxBase bytes.
MaxBase == 1

StackTypes == {u8, u16, u32, u64, i8, i16, i32, i64, f32, f64}

\* Values of a type: for an integer type the one with the bytes 11 22 33 ..
\* and the one with the top bit alone; for a float type 1.0 and a NaN with a
\* payload
Values(typ) ==
    IF IsFloat(typ)
    THEN {int_from_le_bytes(FloatBytes(typ.bits \div 8, 0, IF typ.bits = 32 THEN 128 ELSE 240, 63)),
          int_from_le_bytes(FloatBytes(typ.bits \div 8, 1, IF typ.bits = 32 THEN 128 ELSE 240,
                                       127))}
    ELSE {int_from_le_bytes(Mixed(typ.bits \div 8)), int_from_le_bytes(TopBit(typ.bits \div 8))}

Slices == {<<>>, <<5>>, <<5, 6, 7>>}
Lengths == {0, 1, 2, 3, 4, 8}

StackCall(op, typ, argument, returned) ==
    [op |-> op, value |-> <<typ, argument, returned>>]

InitStack ==
    /\ instructions = <<>>
    /\ pos = 0
    /\ stack \in {<<>>, <<9>>}
    /\ tags = Zeros(Len(stack))
    /\ counter = NonZeroU64(1)
    /\ reference_map = <<>>
    /\ result = Ok
    /\ last = NoInstruction
    /\ before = <<>>
    /\ allocated = <<>>
    /\ overflow_checks \in BOOLEAN

\* The stack a call leaves, what it returned and whether it failed
StoreStack(s, op, typ, argument) ==
    /\ stack' = s.stack
    /\ tags' = s.tags
    /\ result' = s.err
    /\ last' = StackCall(op, typ, argument, IF Failed(s) THEN <<>> ELSE s.val)
    /\ before' = stack
    /\ UNCHANGED <<instructions, pos, counter, reference_map, allocated, overflow_checks>>

Push(typ, value) ==
    /\ Len(stack) <= MaxBase
    /\ StoreStack(stack_push(Machine, typ, value), "push", typ, value)

Pop(typ) == StoreStack(stack_pop(Machine, typ), "pop", typ, <<>>)

PushSlice(slice) ==
    /\ Len(stack) <= MaxBase
    /\ StoreStack(push_slice(Machine, slice), "push_slice", <<>>, slice)

PopSlice(length) == StoreStack(pop_slice(Machine, length), "pop_slice", <<>>, length)

RemoveTop(length) == StoreStack(remove_top(Machine, length), "remove_top", <<>>, length)

PushU8(value) ==
    /\ Len(stack) <= MaxBase
    /\ StoreStack(push_u8(Machine, value), "push_u8", u8, value)

PopU8 == StoreStack(pop_u8(Machine), "pop_u8", u8, <<>>)

NextStack ==
    \/ \E typ \in StackTypes : \E value \in Values(typ) : Push(typ, value)
    \/ \E typ \in StackTypes : Pop(typ)
    \/ \E slice \in Slices : PushSlice(slice)
    \/ \E length \in Lengths : PopSlice(length)
    \/ \E length \in Lengths : RemoveTop(length)
    \/ \E value \in {0, 34, 255} : PushU8(value)
    \/ PopU8

SpecStack == InitStack /\ [][NextStack]_vars

\* ------------------------------ SpecCounters: Heap at the ends of its counters
\* A host calls Heap's public functions on a heap whose objects' stack
\* reference counts are at either end of the u16 and whose allocation counter
\* is where Heap::new and a few allocations left it, or at u64::MAX.  A call
\* that returned an Err may be followed by any other call.
MaxObjects == 2

\* The calls keep a count within MaxDrift of 0 or of u16::MAX
MaxDrift == 2

NearEnd(map, obj_ref) ==
    obj_ref \in DOMAIN map =>
        \/ map[obj_ref].stack_references <= MaxDrift
        \/ map[obj_ref].stack_references >= U16_MAX - MaxDrift

RefCounts == {0, 1, U16_MAX - 1, U16_MAX}

HeapCall(op, value) == [op |-> op, value |-> value]

InitCounters ==
    /\ instructions = <<>>
    /\ pos = 0
    /\ stack = <<>>
    /\ tags = <<>>
    /\ \E n \in 0..MaxObjects :
        /\ reference_map \in [1..n -> {[stack_references |-> k, children |-> <<>>,
                                         data |-> <<>>] : k \in RefCounts}]
        /\ counter \in {NonZeroU64(n + 1), U64_MAX}
    /\ result = Ok
    /\ last = NoInstruction
    /\ before = <<>>
    /\ allocated = <<>>
    /\ overflow_checks \in BOOLEAN

\* The heap a call leaves, and what it returned
StoreHeap(s, call) ==
    /\ counter' = s.counter
    /\ reference_map' = s.reference_map
    /\ result' = s.err
    /\ last' = call
    /\ before' = reference_map
    /\ UNCHANGED <<instructions, pos, stack, tags, allocated, overflow_checks>>

Allocate(children_length, data_length) ==
    /\ result.kind # "panic"
    /\ IF counter = U64_MAX THEN TRUE ELSE from_le_bytes(counter) <= MaxObjects
    /\ StoreHeap(allocate(Machine, children_length, data_length),
                 HeapCall("allocate", <<children_length, data_length>>))

IncrementStackReferences(obj_ref) ==
    /\ result.kind # "panic"
    /\ NearEnd(reference_map, obj_ref)
    /\ StoreHeap(increment_stack_references(Machine, obj_ref),
                 HeapCall("increment_stack_references", <<obj_ref>>))

DecrementStackReferences(obj_ref) ==
    /\ result.kind # "panic"
    /\ NearEnd(reference_map, obj_ref)
    /\ StoreHeap(decrement_stack_references(Machine, obj_ref),
                 HeapCall("decrement_stack_references", <<obj_ref>>))

HeapCollectGarbage ==
    /\ result.kind # "panic"
    /\ \E root_objects \in Orders(Roots(reference_map)) :
        LET c == collect_garbage(reference_map, root_objects) IN
        /\ reference_map' = c.map
        /\ result' = IF c.panicked THEN Err("panic") ELSE Ok
    /\ last' = Instr("collect_garbage")
    /\ before' = reference_map
    /\ UNCHANGED <<instructions, pos, stack, tags, counter, allocated, overflow_checks>>

NextCounters ==
    \/ \E children_length \in 0..1 : Allocate(children_length, 1 - children_length)
    \/ \E obj_ref \in 1..(MaxObjects + 1) : IncrementStackReferences(obj_ref)
    \/ \E obj_ref \in 1..(MaxObjects + 1) : DecrementStackReferences(obj_ref)
    \/ HeapCollectGarbage

SpecCounters == InitCounters /\ [][NextCounters]_vars

\* --------------------------------------- SpecCollect: Heap::collect_garbage
\* The collector alone, on the heaps the machine can have built: up to MaxHeap
\* objects of MaxFanout child slots each, every slot null or a reference to an
\* object of the heap, every object held by the stack (stack_references 1) or
\* not (0).  The host may collect again right after a collection.
MaxHeap == 3
MaxFanout == 2

HeapObjects(n) ==
    {[stack_references |-> k, children |-> c, data |-> <<>>] :
        k \in 0..1, c \in [1..MaxFanout -> 0..n]}

InitCollect ==
    /\ instructions = <<>>
    /\ pos = 0
    /\ stack = <<>>
    /\ tags = <<>>
    /\ \E n \in 0..MaxHeap :
        /\ reference_map \in [1..n -> HeapObjects(n)]
        /\ counter = NonZeroU64(n + 1)
    /\ result = Ok
    /\ last = NoInstruction
    /\ before = <<>>
    /\ allocated = <<>>
    /\ overflow_checks \in BOOLEAN

NextCollect == CollectGarbage

SpecCollect == InitCollect /\ [][NextCollect]_vars

\* ------------------------- SpecMarker: the jump markers of the assembler
\* A program is assembled as main.rs assembles one: some instructions, then
\* push_jump_marker, then up to MaxAfter more instructions, then
\* assign_jump_marker or assign_jump_marker_here with the location the marker
\* returned; the machine then steps through the program from its start.
\* `before` holds what the caller holds: <<location>> once the marker is pushed,
\* <<location, address>> (the address as its 8 bytes) once it is assigned.
MaxAfter == 2

MarkerPrefixes ==
    {<<>>, Assemble(<<Psh(1, <<7>>)>>), Assemble(<<Psh(1, <<7>>), Psh(1, <<9>>)>>)}

\* The instructions written after the marker, and the addresses assigned
MarkerFillers == {Psh(1, <<1>>), Instr("RET")}
MarkerAddresses == {0, 2, 12, 20, 258}

AssemblerCall(op) == [op |-> op, value |-> <<>>]

InitMarker ==
    /\ instructions \in MarkerPrefixes
    /\ pos = 0
    /\ stack = <<>>
    /\ tags = <<>>
    /\ counter = NonZeroU64(1)
    /\ reference_map = <<>>
    /\ result = Ok
    /\ last = NoInstruction
    /\ before = <<>>
    /\ allocated = <<>>
    /\ overflow_checks \in BOOLEAN

PushJumpMarker ==
    /\ last = NoInstruction
    /\ result = Ok
    /\ instructions' = push_jump_marker(instructions).bytes
    /\ before' = <<push_jump_marker(instructions).location>>
    /\ last' = AssemblerCall("push_jump_marker")
    /\ UNCHANGED <<pos, stack, tags, counter, reference_map, result, allocated,
                   overflow_checks>>

Instruct(instruction) ==
    /\ last.op \in {"push_jump_marker", "instruct"}
    /\ Len(instructions) < before[1] + 9 + 2 * MaxAfter
    /\ instructions' = instruct(instructions, instruction)
    /\ last' = AssemblerCall("instruct")
    /\ UNCHANGED <<pos, stack, tags, counter, reference_map, result, before, allocated,
                   overflow_checks>>

AssignJumpMarker(address) ==
    /\ last.op \in {"push_jump_marker", "instruct"}
    /\ instructions' = assign_jump_marker(instructions, before[1], to_le_bytes(address, 8))
    /\ before' = <<before[1], to_le_bytes(address, 8)>>
    /\ last' = AssemblerCall("assign_jump_marker")
    /\ UNCHANGED <<pos, stack, tags, counter, reference_map, result, allocated,
                   overflow_checks>>

AssignJumpMarkerHere ==
    /\ last.op \in {"push_jump_marker", "instruct"}
    /\ instructions' = assign_jump_marker_here(instructions, before[1])
    /\ before' = <<before[1], to_le_bytes(Len(instructions), 8)>>
    /\ last' = AssemblerCall("assign_jump_marker_here")
    /\ UNCHANGED <<pos, stack, tags, counter, reference_map, result, allocated,
                   overflow_checks>>

\* The machine runs the assembled program.  The run is followed through the
\* pushes, the pops and the JSR and RET whose address is below 2^24, and to
\* the error from_reader returns.
Followed(instruction) ==
    \/ instruction.op \in {"none", "PSH_1", "PSH_2", "PSH_4", "PSH_8",
                           "POP_1", "POP_2", "POP_4", "POP_8"}
    \/ /\ instruction.op \in {"JSR", "RET"}
       /\ Len(stack) >= 8 => SubSeq(stack, Len(stack) - 4, Len(stack)) = Zeros(5)

RunStep ==
    /\ last.op \notin {"none", "push_jump_marker", "instruct"}
    /\ Followed(from_reader(instructions, pos, FALSE).instruction)
    /\ Step

NextMarker ==
    \/ PushJumpMarker
    \/ \E instruction \in MarkerFillers : Instruct(instruction)
    \/ \E address \in MarkerAddresses : AssignJumpMarker(address)
    \/ AssignJumpMarkerHere
    \/ RunStep

SpecMarker == InitMarker /\ [][NextMarker]_vars

\* ================================================================== claims
\* What the claims speak of.

\* The sum of stack_references over the objects of a map
RECURSIVE SumStackRefs(_)
SumStackRefs(map) ==
    IF DOMAIN map = {} THEN 0
    ELSE LET r == CHOOSE x \in DOMAIN map : TRUE IN
         map[r].stack_references + SumStackRefs([x \in DOMAIN map \ {r} |-> map[x]])

\* The stack positions (first byte) the oracle knows to hold a non-null reference
TaggedRefs ==
    {i \in 1..(Len(stack) - 7) :
        /\ \A k \in 1..8 : tags[i + k - 1] = k
        /\ from_le_bytes(SubSeq(stack, i, i + 7)) # 0}

\* The u64 in the n-th 8-byte slot from the top of a stack (1 is the top)
SlotFromTop(bytes, n) ==
    from_le_bytes(SubSeq(bytes, Len(bytes) - 8 * n + 1, Len(bytes) - 8 * n + 8))

\* The objects of a map reachable from its roots along non-null child
\* references: the least set holding the roots and closed under children.
RECURSIVE Closure(_, _)
Closure(map, S) ==
    LET T == S \cup {c \in DOMAIN map :
                        \E r \in S : \E i \in DOMAIN map[r].children :
                            map[r].children[i] = c}
    IN  IF T = S THEN S ELSE Closure(map, T)

Reachable(map) == Closure(map, {r \in DOMAIN map : map[r].stack_references > 0})

Collected == last.op = "collect_garbage" /\ result = Ok

\* C1: after any sequence of opcode executions that all returned Ok, the sum of
\* stack_references over the heap equals the number of stack positions that
\* hold a non-null reference pushed by ALLOC, COPY_REF or GET_CHILD.
C1_StackRefsMatchStack ==
    result = Ok => SumStackRefs(reference_map) = Cardinality(TaggedRefs)

\* C2: right after collect_garbage every entry of the heap is reachable from a
\* root, and every entry that was unreachable before the collection is gone.
C2_OnlyReachableRemain ==
    Collected =>
        /\ \A e \in DOMAIN reference_map : e \in Reachable(reference_map)
        /\ \A u \in DOMAIN before \ Reachable(before) : u \notin DOMAIN reference_map

\* C2's case: a collection has removed two objects that referenced each other,
\* and one that referenced itself has been removed by a collection too.
C2_Witness ==
    /\ Collected
    /\ \E a, b \in DOMAIN before \ DOMAIN reference_map :
        /\ a # b
        /\ before[a].children = <<b>>
        /\ before[b].children = <<a>>

C2_WitnessSelf ==
    /\ Collected
    /\ \E a \in DOMAIN before \ DOMAIN reference_map : before[a].children = <<a>>

\* C3: collect_garbage removes no root and no object reachable from a root, and
\* leaves every survivor and the counter as they were; no other operation
\* removes an object.
C3_CollectorFrame ==
    [][ IF last'.op = "collect_garbage"
        THEN result' = Ok =>
                /\ \A r \in Reachable(reference_map) :
                      r \in DOMAIN reference_map' /\ reference_map'[r] = reference_map[r]
                /\ \A r \in DOMAIN reference_map' :
                      r \in DOMAIN reference_map /\ reference_map'[r] = reference_map[r]
                /\ counter' = counter
        ELSE DOMAIN reference_map \subseteq DOMAIN reference_map' ]_vars

\* C3's case: a collection kept an object that is no root, only reachable from one.
C3_Witness ==
    /\ Collected
    /\ \E r \in DOMAIN reference_map : reference_map[r].stack_references = 0

\* C5: the references allocate returns are 1, 2, 3, ... in allocation order:
\* non-zero, strictly increasing by one, never one twice, reclaimed or not.
C5_ReferencesCountUp ==
    \A i \in DOMAIN allocated : allocated[i] = i

\* C5's case: a second allocation after the collector reclaimed the first object.
C5_Witness ==
    /\ last.op = "ALLOC" /\ result = Ok
    /\ Len(allocated) = 2
    /\ allocated[1] \notin DOMAIN reference_map

\* C10: a SET_CHILD that returns Ok has popped parent, index and child (three
\* u64, parent on top), taken one stack reference from parent and one from a
\* non-null child, and written child into slot index of parent; nothing else
\* writes a slot.  A GET_CHILD that returns Ok has popped parent and index, taken
\* one stack reference from parent, and pushed the slot's content: 0 if it is
\* empty, else the child, whose stack_references grew by one.
C10_SetThenGetChild ==
    [][ /\ (last'.op = "SET_CHILD" /\ result' = Ok) =>
            LET parent == SlotFromTop(stack, 1)
                index == SlotFromTop(stack, 2)
                child == SlotFromTop(stack, 3)
            IN  /\ stack' = SubSeq(stack, 1, Len(stack) - 24)
                /\ DOMAIN reference_map' = DOMAIN reference_map
                /\ \A r \in DOMAIN reference_map :
                    /\ reference_map'[r].stack_references =
                          reference_map[r].stack_references
                              - (IF r = parent THEN 1 ELSE 0) - (IF r = child THEN 1 ELSE 0)
                    /\ reference_map'[r].data = reference_map[r].data
                    /\ Len(reference_map'[r].children) = Len(reference_map[r].children)
                    /\ \A i \in DOMAIN reference_map[r].children :
                          reference_map'[r].children[i] =
                              IF r = parent /\ i = index + 1 THEN child
                              ELSE reference_map[r].children[i]
        /\ ~(last'.op = "SET_CHILD" /\ result' = Ok) =>
            \A r \in DOMAIN reference_map \cap DOMAIN reference_map' :
                reference_map'[r].children = reference_map[r].children
        /\ (last'.op = "GET_CHILD" /\ result' = Ok) =>
            LET parent == SlotFromTop(stack, 1)
                index == SlotFromTop(stack, 2)
                slot == reference_map[parent].children[index + 1]
            IN  /\ Len(stack') = Len(stack) - 8
                /\ SubSeq(stack', 1, Len(stack) - 16) = SubSeq(stack, 1, Len(stack) - 16)
                /\ TopU64(stack') = slot
                /\ DOMAIN reference_map' = DOMAIN reference_map
                /\ \A r \in DOMAIN reference_map :
                    /\ reference_map'[r].stack_references =
                          reference_map[r].stack_references
                              - (IF r = parent THEN 1 ELSE 0) + (IF r = slot THEN 1 ELSE 0)
                    /\ reference_map'[r].data = reference_map[r].data
      ]_vars

\* C10's case: a GET_CHILD has pushed a child that an earlier SET_CHILD wrote.
C10_Witness ==
    /\ last.op = "GET_CHILD" /\ result = Ok
    /\ TopU64(stack) # 0
    /\ TopU64(stack) \in DOMAIN reference_map

\* The 0-based stream position an instruction of the program was read from is
\* pos before the step; a one-byte opcode ends at pos + 1.
AtProgramEnd == pos = Len(instructions) /\ result = Ok

\* C4: when the collector scenario has run to its end, A and B both have
\* stack_references = 0, and a collect_garbage that follows removes both.
C4_CycleCollected ==
    instructions = CycleProgram /\ AtProgramEnd =>
        /\ \A r \in DOMAIN reference_map : reference_map[r].stack_references = 0
        /\ Collected => reference_map = <<>>

\* C6: a JSR that returns Ok has popped the address, pushed the position of the
\* byte after the JSR opcode, and moved the stream to the address; a RET moves
\* the stream to the u64 it pops.
C6_JsrPushesNextPosition ==
    [][ /\ (last'.op = "JSR" /\ result' = Ok) =>
            /\ Len(stack') = Len(stack)
            /\ TopU64(stack') = pos + 1
            /\ pos' = TopU64(stack)
        /\ (last'.op = "RET" /\ result' = Ok) =>
            /\ stack' = SubSeq(stack, 1, Len(stack) - 8)
            /\ pos' = TopU64(stack)
      ]_vars

\* The predicates of the ordering bytes, as the table of section 4.1 gives them
TablePredicate(op, cmp) ==
    CASE op = "JMP_EQ" -> cmp = 2
      [] op = "JMP_NE" -> cmp \in {0, 1, 3}
      [] op = "JMP_LT" -> cmp = 1
      [] op = "JMP_GT" -> cmp = 3
      [] op = "JMP_LE" -> cmp \in {0, 1, 2}
      [] op = "JMP_GE" -> cmp \in {0, 2, 3}

\* C7: a JMP_<cond> on a stack whose top byte cmp is in 0..3, with a u64 address
\* below it, returns Ok, consumes the 9 bytes, and leaves the stream at address
\* if the predicate holds for cmp and at the byte after the opcode if not; with
\* cmp outside 0..3 it returns InvalidComparisonByte(cmp) and the stream stays
\* at the byte after the opcode.
C7_ConditionalJump ==
    [][ last'.op \in JmpOps /\ Len(stack) >= 1 =>
            LET cmp == stack[Len(stack)]
                address == from_le_bytes(SubSeq(stack, Len(stack) - 8, Len(stack) - 1))
            IN  /\ (cmp \in 0..3 /\ Len(stack) >= 9) =>
                    /\ result' = Ok
                    /\ stack' = SubSeq(stack, 1, Len(stack) - 9)
                    /\ pos' = IF TablePredicate(last'.op, cmp) THEN address ELSE pos + 1
                /\ cmp \notin 0..3 =>
                    /\ result' = ErrByte("InvalidComparisonByte", cmp)
                    /\ pos' = pos + 1
      ]_vars

\* C7's cases: JMP_LE has jumped on Unordered, JMP_LT has fallen through on it,
\* and a jump has refused the byte 4.
C7_Witness ==
    /\ instructions = JmpProgram("JMP_LE", 0, 16)
    /\ last.op = "JMP_LE" /\ result = Ok /\ pos = 16 /\ stack = <<>>

C7_WitnessFallThrough ==
    /\ instructions = JmpProgram("JMP_LT", 0, 16)
    /\ last.op = "JMP_LT" /\ result = Ok /\ pos = 12 /\ stack = <<>>

C7_WitnessInvalid ==
    /\ last.op \in JmpOps
    /\ result = ErrByte("InvalidComparisonByte", 4)
    /\ pos = 12

\* C8: from_reader at the end of the stream returns EndOfInstructions; at a
\* discriminant d in 0..3 with fewer than 1, 2, 4, 8 bytes after it returns
\* IncompleteInstruction(d), and with enough returns PSH_n of those bytes and
\* advances by 1 plus the payload length; at a discriminant in 4..106 returns
\* the opcode of that discriminant and advances by exactly 1; above 106
\* returns UnknownInstruction(byte).
C8_DecoderClassifies ==
    [][ LET left == Len(instructions) - pos IN
        IF left <= 0
        THEN result' = Err("EndOfInstructions")
        ELSE LET d == instructions[pos + 1]
                 width == 2 ^ d
             IN  /\ (d \in 0..3 /\ left - 1 < width) =>
                        result' = ErrByte("IncompleteInstruction", d)
                 /\ (d \in 0..3 /\ left - 1 >= width) =>
                        /\ result' = Ok
                        /\ last' = [op |-> Instruction[d + 1],
                                    value |-> SubSeq(instructions, pos + 2, pos + 1 + width)]
                        /\ pos' = pos + 1 + width
                 /\ d \in 4..106 =>
                        /\ result' = Ok
                        /\ last' = Instr(Instruction[d + 1])
                        /\ pos' = pos + 1
                 /\ d > 106 => result' = ErrByte("UnknownInstruction", d)
      ]_vars

\* C8's cases: a PSH_8 one payload byte short, a discriminant above 106, a
\* PSH_4 decoded with its payload, and the end met after an opcode.
C8_Witness ==
    /\ Len(instructions) = 8
    /\ result = ErrByte("IncompleteInstruction", 3)

C8_WitnessUnknown == result = ErrByte("UnknownInstruction", 107)

C8_WitnessPayload ==
    /\ result = Ok
    /\ last = Psh(4, <<7, 7, 7, 7>>)
    /\ pos = 5

C8_WitnessEnd ==
    /\ instructions = <<106>>
    /\ pos = 1
    /\ result = Err("EndOfInstructions")

\* The opcode table of section 6, row by row: the first discriminant of the
\* row and the names it lists.
OpcodeTable ==
    << <<0, <<"PSH_1">> >>, <<1, <<"PSH_2">> >>, <<2, <<"PSH_4">> >>, <<3, <<"PSH_8">> >>,
       <<4, <<"POP_1", "POP_2", "POP_4", "POP_8">> >>,
       <<8, <<"ALLOC">> >>, <<9, <<"COPY_REF">> >>, <<10, <<"SET_CHILD">> >>,
       <<11, <<"GET_CHILD">> >>,
       <<12, <<"MOV_ST_HP_1", "MOV_ST_HP_2", "MOV_ST_HP_4", "MOV_ST_HP_8">> >>,
       <<16, <<"MOV_HP_ST_1", "MOV_HP_ST_2", "MOV_HP_ST_4", "MOV_HP_ST_8">> >>,
       <<20, <<"JSR">> >>, <<21, <<"RET">> >>,
       <<22, <<"JMP_EQ", "JMP_NE", "JMP_GE", "JMP_GT", "JMP_LE", "JMP_LT">> >>,
       <<28, <<"CMP_U_1", "CMP_U_2", "CMP_U_4", "CMP_U_8">> >>,
       <<32, <<"CMP_S_1", "CMP_S_2", "CMP_S_4", "CMP_S_8">> >>,
       <<36, <<"CMP_F4", "CMP_F8">> >>,
       <<38, <<"NOT_1", "NOT_2", "NOT_4", "NOT_8">> >>,
       <<42, <<"AND_1", "AND_2", "AND_4", "AND_8">> >>,
       <<46, <<"OR_1", "OR_2", "OR_4", "OR_8">> >>,
       <<50, <<"XOR_1", "XOR_2", "XOR_4", "XOR_8">> >>,
       <<54, <<"SHL_1", "SHL_2", "SHL_4", "SHL_8">> >>,
       <<58, <<"SHR_1", "SHR_2", "SHR_4", "SHR_8">> >>,
       <<62, <<"SAR_1", "SAR_2", "SAR_4", "SAR_8">> >>,
       <<66, <<"ADD_1", "ADD_2", "ADD_4", "ADD_8">> >>,
       <<70, <<"SUB_1", "SUB_2", "SUB_4", "SUB_8">> >>,
       <<74, <<"MUL_1", "MUL_2", "MUL_4", "MUL_8">> >>,
       <<78, <<"DIV_REM_U_1", "DIV_REM_U_2", "DIV_REM_U_4", "DIV_REM_U_8">> >>,
       <<82, <<"DIV_REM_S_1", "DIV_REM_S_2", "DIV_REM_S_4", "DIV_REM_S_8">> >>,
       <<86, <<"ADD_F_4", "ADD_F_8">> >>, <<88, <<"SUB_F_4", "SUB_F_8">> >>,
       <<90, <<"MUL_F_4", "MUL_F_8">> >>, <<92, <<"DIV_F_4", "DIV_F_8">> >>,
       <<94, <<"REM_F_4", "REM_F_8">> >>,
       <<96, <<"CNV_U8_F4", "CNV_U8_F8">> >>, <<98, <<"CNV_S8_F4", "CNV_S8_F8">> >>,
       <<100, <<"CNV_F4_U8", "CNV_F8_U8">> >>, <<102, <<"CNV_F4_S8", "CNV_F8_S8">> >>,
       <<104, <<"CNV_F4_F8">> >>, <<105, <<"CNV_F8_F4">> >>, <<106, <<"CALL_EXT">> >> >>

TableDiscriminants(op) ==
    {OpcodeTable[r][1] + i - 1 :
        <<r, i>> \in {<<r, i>> \in (DOMAIN OpcodeTable) \X (1..6) :
                        /\ i \in DOMAIN OpcodeTable[r][2]
                        /\ OpcodeTable[r][2][i] = op}}

\* C9: the bytes instruct emits for an instruction start with the discriminant
\* the opcode table gives its opcode, and from_reader on those bytes returns
\* the instruction, payload included, and leaves the stream at their end.
C9_EncodeDecodeRoundTrip ==
    [][ /\ (instructions = <<>> /\ instructions' # <<>>) =>
            TableDiscriminants(last.op) = {instructions'[1]}
        /\ (instructions # <<>> /\ pos = 0) =>
            /\ result' = Ok
            /\ last' = last
            /\ pos' = Len(instructions)
      ]_vars

\* C9's case: a PSH_8 and the last opcode have gone through encoder and decoder
C9_Witness ==
    /\ instructions = <<3, 255, 3, 0, 255, 3, 0, 255, 3>>
    /\ pos = 9
    /\ result = Ok
    /\ last.op = "PSH_8"

C9_WitnessCallExt ==
    /\ instructions = <<106>>
    /\ pos = 1
    /\ result = Ok
    /\ last = Instr("CALL_EXT")

\* C11: COPY_REF on a stack whose top 8 bytes are a reference r to an object in
\* the heap returns Ok, leaves the stack 8 bytes longer with r in its top two
\* 8-byte positions and the bytes below unchanged, and raises r's
\* stack_references by exactly one; nothing else in the heap changes.
C11_CopyRefAddsOneRoot ==
    [][ (/\ last'.op = "COPY_REF"
         /\ Len(stack) >= 8
         /\ TopU64(stack) \in DOMAIN reference_map) =>
            LET r == TopU64(stack) IN
            /\ result' = Ok
            /\ Len(stack') = Len(stack) + 8
            /\ SubSeq(stack', 1, Len(stack) - 8) = SubSeq(stack, 1, Len(stack) - 8)
            /\ SlotFromTop(stack', 1) = r
            /\ SlotFromTop(stack', 2) = r
            /\ reference_map' =
                   [reference_map EXCEPT ![r].stack_references = @ + 1]
      ]_vars

\* C11's case: a COPY_REF has doubled a reference to an object other objects
\* share the heap with.
C11_Witness ==
    /\ last.op = "COPY_REF"
    /\ result = Ok
    /\ Len(stack) >= 16
    /\ SlotFromTop(stack, 1) = SlotFromTop(stack, 2)
    /\ SlotFromTop(stack, 1) \in DOMAIN reference_map
    /\ reference_map[SlotFromTop(stack, 1)].stack_references = 2
    /\ Cardinality(DOMAIN reference_map) = 2

\* The top n bytes of a stack, and the bytes of its 8-byte slot and of the W
\* bytes under the two top slots
TopBytes(bytes, n) == SubSeq(bytes, Len(bytes) - n + 1, Len(bytes))
BelowTwoSlots(bytes, W) == SubSeq(bytes, Len(bytes) - 15 - W, Len(bytes) - 16)

\* The data of an object with the bytes written in order from offset start on
DataWith(data, start, bytes) ==
    [i \in DOMAIN data |->
        IF i > start /\ i <= start + Len(bytes) THEN bytes[i - start] ELSE data[i]]

\* The start operand, second slot from the top, is below 2^24 (start + W is
\* then far from the end of the machine word)
StartBelowWord(bytes) ==
    /\ Len(bytes) >= 16
    /\ SubSeq(bytes, Len(bytes) - 12, Len(bytes) - 8) = <<0, 0, 0, 0, 0>>

C12_WitnessSecond ==
    /\ instructions = StoreLoadProgram(8, MaxLen, 1, 2, 2)
    /\ AtProgramEnd
    /\ last = MovHpSt(8)
    /\ TopBytes(stack, 8) = DataB(8)
    /\ reference_map[1].data = <<0, DataA(8)[1]>> \o DataB(8)

C12_WitnessRefused ==
    /\ last = MovStHp(4)
    /\ result = Err("OutOfBoundsObjectDataAccess")
    /\ Len(reference_map[1].data) = 5

\* C13: after PSH_8(c) PSH_8(d) ALLOC the top of the stack is a non-zero
\* reference to a new object with c child slots and d data bytes; for c = 0,
\* d = 4 the MOV_HP_ST_4 with start 0 that follows returns Ok and pushes
\* 00 00 00 00.
C13_AllocChildrenThenData ==
    \A c \in 0..MaxLen, d \in 0..MaxLen :
        instructions = AllocLoadProgram(c, d) =>
            /\ (last.op = "ALLOC" /\ result = Ok) =>
                    /\ TopU64(stack) # 0
                    /\ TopU64(stack) \in DOMAIN reference_map
                    /\ Len(reference_map[TopU64(stack)].children) = c
                    /\ Len(reference_map[TopU64(stack)].data) = d
            /\ (c = 0 /\ d = 4 /\ last = MovHpSt(4)) =>
                    /\ result = Ok
                    /\ TopBytes(stack, 4) = <<0, 0, 0, 0>>

\* C13 amended: after PSH_8(d) PSH_8(c) ALLOC, the data length pushed first
\* and the child count on top, the top of the stack is a non-zero reference to
\* a new object with c child slots and d data bytes, all zero; for d = 4,
\* c = 0 the MOV_HP_ST_4 with start 0 that follows returns Ok and pushes
\* 00 00 00 00.
C13_AllocDataThenChildren ==
    \A d \in 0..MaxLen, c \in 0..MaxLen :
        instructions = AllocLoadProgram(d, c) =>
            /\ (last.op = "ALLOC" /\ result = Ok) =>
                    /\ TopU64(stack) # 0
                    /\ TopU64(stack) \in DOMAIN reference_map
                    /\ reference_map[TopU64(stack)].children = [i \in 1..c |-> 0]
                    /\ reference_map[TopU64(stack)].data = [i \in 1..d |-> 0]
            /\ (d = 4 /\ c = 0 /\ last = MovHpSt(4)) =>
                    /\ result = Ok
                    /\ stack = <<0, 0, 0, 0>>

\* C13's case: PSH_8(0) PSH_8(4) PSH_8(0) ALLOC MOV_HP_ST_4 has run to its end
C13_Witness ==
    /\ instructions = AllocLoadProgram(4, 0)
    /\ AtProgramEnd
    /\ last = MovHpSt(4)
    /\ stack = <<0, 0, 0, 0>>
    /\ Len(reference_map[1].data) = 4

\* C14: COPY_REF, SET_CHILD, GET_CHILD, MOV_ST_HP_W and MOV_HP_ST_W with a zero
\* u64 as their reference (parent) operand, the top of the stack, fail with
\* IllegalNullObjectReferenceUsage; SET_CHILD with a zero child operand clears
\* the slot and changes no stack_references but the popped parent's; ALLOC and
\* COPY_REF never push zero, and GET_CHILD pushes zero exactly when the slot
\* it reads is empty.
C14_NullOnlyAsChild ==
    [][ /\ (last'.op \in NullOps /\ Len(stack) >= 8 /\ TopU64(stack) = 0) =>
                result' = Err("IllegalNullObjectReferenceUsage")
        /\ (/\ last'.op \in {"SET_CHILD", "GET_CHILD"}
            /\ Len(stack) >= 16
            /\ TopU64(stack) \in DOMAIN reference_map
            /\ reference_map[TopU64(stack)].stack_references >= 1
            /\ SlotFromTop(stack, 2) < Len(reference_map[TopU64(stack)].children)) =>
                LET parent == TopU64(stack)
                    index == SlotFromTop(stack, 2)
                    counted == [reference_map EXCEPT ![parent].stack_references = @ - 1]
                IN  /\ (/\ last'.op = "SET_CHILD"
                        /\ Len(stack) >= 24
                        /\ SlotFromTop(stack, 3) = 0) =>
                            /\ result' = Ok
                            /\ reference_map' =
                                   [counted EXCEPT ![parent].children[index + 1] = 0]
                    /\ last'.op = "GET_CHILD" =>
                            /\ result' = Ok
                            /\ (TopU64(stack') = 0) <=>
                                   (reference_map[parent].children[index + 1] = 0)
        /\ (last'.op \in {"ALLOC", "COPY_REF"} /\ result' = Ok) => TopU64(stack') # 0
      ]_vars

\* C14's cases: a SET_CHILD with the null child has cleared a slot that held a
\* reference and the GET_CHILD after it has pushed zero; a store has refused
\* the null reference.
C14_Witness ==
    /\ instructions = NullChildProgram
    /\ AtProgramEnd
    /\ last.op = "GET_CHILD"
    /\ TopU64(stack) = 0
    /\ reference_map[1].children = <<0>>

C14_WitnessRefused ==
    /\ last.op = "MOV_ST_HP_8"
    /\ result = Err("IllegalNullObjectReferenceUsage")
    /\ Len(stack) = 32

\* The integer types, the DIV_REM opcode of a type, and the slot of W bytes
\* below the top one
IntegerTypes == {u8, u16, u32, u64, i8, i16, i32, i64}
SizeOf(typ) == typ.bits \div 8
DivRemOf(typ) == IF typ.signed THEN DivRemSOp(SizeOf(typ)) ELSE DivRemUOp(SizeOf(typ))
SecondBytes(bytes, W) == SubSeq(bytes, Len(bytes) - 2 * W + 1, Len(bytes) - W)
BelowTwo(bytes, W) == SubSeq(bytes, 1, Len(bytes) - 2 * W)

\* The one pair of operands whose quotient is not a value of the type:
\* the signed minimum divided by -1
MinByMinusOne(typ, a, b) == typ.signed /\ a = MIN(typ) /\ b = NotBits(Zero(typ))

\* C15: a DIV_REM_{U,S}_W step pops a from the top and b from below it and
\* pushes infallible_div(a, b) and then infallible_rem(a, b): afterwards the
\* remainder is on top and the quotient below it, a being the dividend and b
\* the divisor.  (For the signed minimum over -1 infallible_div returns
\* nothing to push; that pair is C17's.)
C15_DivRemOperandOrder ==
    [][\A typ \in IntegerTypes :
        (last'.op = DivRemOf(typ) /\ Len(stack) >= 2 * SizeOf(typ)) =>
            LET a == int_from_le_bytes(TopBytes(stack, SizeOf(typ)))
                b == int_from_le_bytes(SecondBytes(stack, SizeOf(typ)))
            IN  ~MinByMinusOne(typ, a, b) =>
                    /\ result' = Ok
                    /\ stack' = BelowTwo(stack, SizeOf(typ))
                                    \o int_to_le_bytes(infallible_div(typ, a, b).value)
                                    \o int_to_le_bytes(infallible_rem(typ, a, b).value)
      ]_vars

\* C15's case: DIV_REM_S_2 has run with a = -32768 on top and b = 3 below it
\* and left the quotient -10922 (56 D5) below the remainder -2 (FE FF).
C15_Witness ==
    /\ instructions = ArithProgram(DivRemSOp(2), 2, Small(3, 2), TopBit(2))
    /\ last.op = DivRemSOp(2)
    /\ result = Ok
    /\ stack = <<86, 213, 254, 255>>

\* q and r are the quotient and the remainder of a by b, b # 0, of a type:
\* |q| * |b| + |r| = |a| exactly, |r| < |b|, the remainder has the sign of a
\* and the quotient is negative when the signs of a and b differ.
IsQuotRem(typ, a, b, q, r) ==
    LET product == MulBits(Magnitude(typ, q), Magnitude(typ, b))
        sum == AddBits(SubSeq(product, 1, typ.bits), Magnitude(typ, r), 0)
    IN  /\ SubSeq(product, typ.bits + 1, 2 * typ.bits) = Zero(typ)
        /\ sum.carry = 0
        /\ sum.value = Magnitude(typ, a)
        /\ SubBits(Magnitude(typ, r), Magnitude(typ, b)).carry = 0
        /\ r = Zero(typ) \/ IsNegative(typ, r) = IsNegative(typ, a)
        /\ q = Zero(typ) \/ IsNegative(typ, q) = (IsNegative(typ, a) # IsNegative(typ, b))

\* Quotient below remainder, as DIV_REM_U_8 leaves them for a dividend and a
\* divisor given as 8 bytes each: u64::MAX and the dividend for the divisor 0.
QuotRemU64(stk, dividend, divisor) ==
    /\ Len(stk) = 16
    /\ IF divisor = Zeros(8)
       THEN stk = AllOnes(8) \o dividend
       ELSE IsQuotRem(u64, int_from_le_bytes(dividend), int_from_le_bytes(divisor),
                      int_from_le_bytes(SubSeq(stk, 1, 8)),
                      int_from_le_bytes(SubSeq(stk, 9, 16)))

\* C16 as stated: PSH_8(x) PSH_8(y) DIV_REM_U_8 leaves the remainder of x by y
\* on top of the stack and the quotient of x by y below it, the zero-divisor
\* policy applied to y: for x = 7, y = 3 the top is 1 and the next 2, for
\* x = 10, y = 0 the top is 10 and the next u64::MAX.
C16_FirstPushedIsDividend ==
    last.op = DivRemUOp(8) =>
        \A x, y \in Operands(8) :
            instructions = ArithProgram(DivRemUOp(8), 8, x, y) =>
                /\ result = Ok
                /\ QuotRemU64(stack, x, y)
                /\ (x = Small(7, 8) /\ y = Small(3, 8)) =>
                        stack = to_le_bytes(2, 8) \o to_le_bytes(1, 8)
                /\ (x = Small(10, 8) /\ y = Small(0, 8)) =>
                        stack = AllOnes(8) \o to_le_bytes(10, 8)

\* C16, amended: PSH_8(x) PSH_8(y) DIV_REM_U_8 leaves the remainder of y by x
\* on top of the stack and the quotient of y by x below it, the zero-divisor
\* policy applied to x: for x = 3, y = 7 the top is 1 and the next 2, for
\* x = 0, y = 10 the top is 10 and the next u64::MAX.
C16_LastPushedIsDividend ==
    last.op = DivRemUOp(8) =>
        \A x, y \in Operands(8) :
            instructions = ArithProgram(DivRemUOp(8), 8, x, y) =>
                /\ result = Ok
                /\ QuotRemU64(stack, y, x)
                /\ (x = Small(3, 8) /\ y = Small(7, 8)) =>
                        stack = to_le_bytes(2, 8) \o to_le_bytes(1, 8)
                /\ (x = Small(0, 8) /\ y = Small(10, 8)) =>
                        stack = AllOnes(8) \o to_le_bytes(10, 8)

\* C16's case: PSH_8(0) PSH_8(10) DIV_REM_U_8 has run and left u64::MAX below
\* 10.
C16_Witness ==
    /\ instructions = ArithProgram(DivRemUOp(8), 8, Small(0, 8), Small(10, 8))
    /\ last.op = DivRemUOp(8)
    /\ result = Ok
    /\ stack = AllOnes(8) \o to_le_bytes(10, 8)

\* C17: infallible_div and infallible_rem return a value for every pair of
\* operands of every type, so no DIV_REM_{U,S}_W step that finds its two
\* operands on the stack aborts.
C17_DivRemNeverAborts ==
    [][\A typ \in IntegerTypes :
        (last'.op = DivRemOf(typ) /\ Len(stack) >= 2 * SizeOf(typ)) =>
            /\ result' = Ok
            /\ Len(stack') = Len(stack)
      ]_vars

\* <T>::MAX as the bytes pushed: all bits set, but for the top one if signed
MaxBytes(typ) == IF typ.signed THEN AllButTop(SizeOf(typ)) ELSE AllOnes(SizeOf(typ))

\* C18: on the operands a (top) and b of a DIV_REM step of any type, with
\* b = 0 the quotient pushed is the maximum value of the type and the
\* remainder pushed is a; with b # 0 they are a / b and a % b (which, for the
\* signed minimum over -1, is no value).
C18_ZeroDivisorPolicy ==
    [][\A typ \in IntegerTypes :
        (last'.op = DivRemOf(typ) /\ Len(stack) >= 2 * SizeOf(typ)) =>
            LET a == TopBytes(stack, SizeOf(typ))
                b == SecondBytes(stack, SizeOf(typ))
                q == SecondBytes(stack', SizeOf(typ))
                r == TopBytes(stack', SizeOf(typ))
            IN  IF b = Zeros(SizeOf(typ))
                THEN /\ result' = Ok
                     /\ Len(stack') = Len(stack)
                     /\ q = MaxBytes(typ)
                     /\ r = a
                ELSE ~MinByMinusOne(typ, int_from_le_bytes(a), int_from_le_bytes(b)) =>
                        /\ result' = Ok
                        /\ Len(stack') = Len(stack)
                        /\ IsQuotRem(typ, int_from_le_bytes(a), int_from_le_bytes(b),
                                     int_from_le_bytes(q), int_from_le_bytes(r))
      ]_vars

\* C18's cases: DIV_REM_S_4 has run with a = i32::MIN on top of b = 0 and left
\* i32::MAX below i32::MIN; DIV_REM_S_1 has run with a = -128 on top of b = 7
\* and left -18 (EE) below -2 (FE).
C18_Witness ==
    /\ instructions = ArithProgram(DivRemSOp(4), 4, Small(0, 4), TopBit(4))
    /\ last.op = DivRemSOp(4)
    /\ result = Ok
    /\ stack = AllButTop(4) \o TopBit(4)

C18_WitnessQuotient ==
    /\ instructions = ArithProgram(DivRemSOp(1), 1, Small(7, 1), TopBit(1))
    /\ last.op = DivRemSOp(1)
    /\ result = Ok
    /\ stack = <<238, 254>>

\* The ADD, SUB and MUL opcodes with their widths and operators
WrappingOps ==
    {[op |-> AddOp(W), W |-> W, sym |-> "+"] : W \in Widths}
        \cup {[op |-> SubOp(W), W |-> W, sym |-> "-"] : W \in Widths}
        \cup {[op |-> MulOp(W), W |-> W, sym |-> "*"] : W \in Widths}

\* C19: an ADD_W, SUB_W or MUL_W step pops a (top) and b (below) and pushes
\* a op b reduced modulo 2^(8W); it succeeds for every pair of operands: ADD_1
\* of 255 and 1 pushes 0, SUB_1 with a = 0 and b = 1 pushes 255.
C19_WrapsAround ==
    [][\A o \in WrappingOps :
        (last'.op = o.op /\ Len(stack) >= 2 * o.W) =>
            LET a == TopBytes(stack, o.W)
                b == SecondBytes(stack, o.W)
            IN  /\ result' = Ok
                /\ stack' = BelowTwo(stack, o.W)
                    \o int_to_le_bytes(BinaryOp(o.sym, Unsigned(o.W), int_from_le_bytes(a),
                                                int_from_le_bytes(b)).value)
                /\ (o.op = AddOp(1) /\ a = <<255>> /\ b = <<1>>) => TopBytes(stack', 1) = <<0>>
                /\ (o.op = SubOp(1) /\ a = <<0>> /\ b = <<1>>) => TopBytes(stack', 1) = <<255>>
      ]_vars

\* C20: a SAR_W step on an operand (top) whose top bit is set and a count n
\* (the byte below) with 0 < n < 8W succeeds and leaves a result whose n
\* highest bits are all 1, for W = 4 and 8 as for W = 1 and 2.
C20_SarIsArithmetic ==
    [][\A W \in Widths :
        (/\ last'.op = SarOp(W)
         /\ Len(stack) >= W + 1
         /\ TopBytes(stack, W)[W] >= 128
         /\ stack[Len(stack) - W] \in 1..(8 * W - 1)) =>
            /\ result' = Ok
            /\ Len(stack') = Len(stack) - 1
            /\ \A i \in (8 * W - stack[Len(stack) - W] + 1)..(8 * W) :
                    int_from_le_bytes(TopBytes(stack', W))[i] = 1
      ]_vars

\* ------------------------------------------------------------------ C21
\* IEEE-754 totalOrder on two encodings: negative below positive, NaNs
\* included, larger magnitude further from zero, -0 below +0
TotalKey(a) == IF a[Len(a)] = 1 THEN NotBits(a) ELSE [a EXCEPT ![Len(a)] = 1]
TotalOrder(a, b) == CmpKeys(TotalKey(a), TotalKey(b))

\* C21: CMP_F4 and CMP_F8 never push the Unordered byte 0: on every pair of
\* float operands, NaN and (+0, -0) included, the step succeeds and replaces
\* the operands a (top) and b (below) by one byte, 1, 2 or 3, the totalOrder
\* of a relative to b.
C21_CmpFTotalOrder ==
    [][\A W \in FloatWidths :
        (last'.op = CmpFOp(W) /\ Len(stack) >= 2 * W) =>
            /\ result' = Ok
            /\ stack'[Len(stack')] \in {1, 2, 3}
            /\ stack' = SubSeq(stack, 1, Len(stack) - 2 * W)
                 \o <<as_u8(TotalOrder(int_from_le_bytes(TopBytes(stack, W)),
                                       int_from_le_bytes(SubSeq(stack, Len(stack) - 2 * W + 1,
                                                                Len(stack) - W))))>>
      ]_vars

\* ------------------------------------------------------------------ C22
\* C22: whatever opcode is decoded in whatever state, Machine::step returns
\* Ok or Err(MachineError); it never aborts the host with a panic.
C22_StepNeverAborts == result.kind # "panic"

\* ------------------------------------------------------------------ C23
\* C23: a successful ALLOC (Heap::allocate(n_children, n_data)) adds exactly
\* one object, under a reference no object held, with stack_refs = 1,
\* n_children empty child slots and n_data zero bytes: get_data_slice(ref, 0,
\* n_data) returns n_data zeros and get_child(ref, i) null for every
\* i < n_children; the objects that existed are unchanged.
C23_AllocateAddsOneObject ==
    [][(last'.op = "ALLOC" /\ result' = Ok) =>
        /\ TopU64(stack') \notin DOMAIN reference_map
        /\ DOMAIN reference_map' = DOMAIN reference_map \cup {TopU64(stack')}
        /\ \A r \in DOMAIN reference_map : reference_map'[r] = reference_map[r]
        /\ reference_map'[TopU64(stack')].stack_references = 1
        /\ Len(reference_map'[TopU64(stack')].children) = SlotFromTop(stack, 1)
        /\ Len(reference_map'[TopU64(stack')].data) = SlotFromTop(stack, 2)
        /\ get_data_slice(Machine', TopU64(stack'), Zero(usize), SlotFromTop(stack, 2))
                = [Machine' EXCEPT !.val = Zeros(SlotFromTop(stack, 2))]
        /\ \A i \in 0..(SlotFromTop(stack, 1) - 1) :
                get_child(Machine', TopU64(stack'), i) = [Machine' EXCEPT !.val = 0]
      ]_vars

\* An ALLOC of three child slots and three data bytes beside an object that
\* holds a child and data
C23_Witness ==
    /\ last.op = "ALLOC"
    /\ result = Ok
    /\ DOMAIN reference_map = {1, 2}
    /\ reference_map[1].children = <<1>>
    /\ reference_map[1].data # Zeros(Len(reference_map[1].data))
    /\ reference_map[2] = [stack_references |-> 1, children |-> <<0, 0, 0>>,
                           data |-> <<0, 0, 0>>]

\* ------------------------------------------------------------------ C30
\* start + W exceeds len, as numbers: start > len - W, or W > len
Exceeds(start, W, len) ==
    W > len \/ CmpKeys(start, USize(len - W)) = "Greater"

\* C30: a MOV_HP_ST_W or MOV_ST_HP_W on a held reference whose start and W
\* sum to more than the object's data length fails with
\* OutOfBoundsObjectDataAccess, also when start + W overflows the machine
\* word (start 2^64 - 1): no slice is returned (nothing is pushed, no data
\* byte changes) and the step does not abort.
C30_OutOfBoundsOnOverflow ==
    [][\A W \in Widths :
        (/\ last' \in {MovStHp(W), MovHpSt(W)}
         /\ Len(stack) >= 16 + (IF last' = MovStHp(W) THEN W ELSE 0)
         /\ TopU64(stack) \in DOMAIN reference_map
         /\ reference_map[TopU64(stack)].stack_references >= 1
         /\ Exceeds(int_from_le_bytes(SubSeq(stack, Len(stack) - 15, Len(stack) - 8)), W,
                    Len(reference_map[TopU64(stack)].data))) =>
            /\ result' = Err("OutOfBoundsObjectDataAccess")
            /\ Len(stack') = Len(stack) - 16 - (IF last' = MovStHp(W) THEN W ELSE 0)
            /\ reference_map'[TopU64(stack)].data = reference_map[TopU64(stack)].data
      ]_vars

\* ------------------------------------------------------------------ C29
\* The heap after the stack references of the popped references rs (a
\* sequence; the null reference 0 is not counted) are given up
RECURSIVE Released(_, _)
Released(map, rs) ==
    IF rs = <<>> THEN map
    ELSE IF Head(rs) = 0 THEN Released(map, Tail(rs))
    ELSE Released([map EXCEPT ![Head(rs)].stack_references = @ - 1], Tail(rs))

\* C29: a failed opcode is not rolled back.  A SET_CHILD or GET_CHILD that
\* fails with ChildIndexOutOfBounds (the index is not below the parent's child
\* count) and a MOV_ST_HP_W or MOV_HP_ST_W that fails with
\* OutOfBoundsObjectDataAccess leave their operands popped (24 bytes for
\* SET_CHILD, 16 for GET_CHILD and the load, 16 + W for the store) and the
\* stack_references of the popped references decremented; nothing else of the
\* heap changes: children and data are as before.
C29_FailureNotRolledBack ==
    [][/\ (last'.op = "SET_CHILD" /\ result' = Err("ChildIndexOutOfBounds")) =>
            /\ SlotFromTop(stack, 2) >= Len(reference_map[TopU64(stack)].children)
            /\ stack' = SubSeq(stack, 1, Len(stack) - 24)
            /\ reference_map' =
                    Released(reference_map, <<TopU64(stack), SlotFromTop(stack, 3)>>)
       /\ (last'.op = "GET_CHILD" /\ result' = Err("ChildIndexOutOfBounds")) =>
            /\ SlotFromTop(stack, 2) >= Len(reference_map[TopU64(stack)].children)
            /\ stack' = SubSeq(stack, 1, Len(stack) - 16)
            /\ reference_map' = Released(reference_map, <<TopU64(stack)>>)
       /\ \A W \in Widths :
            (/\ last' \in {MovStHp(W), MovHpSt(W)}
             /\ result' = Err("OutOfBoundsObjectDataAccess")) =>
                /\ stack' = SubSeq(stack, 1, Len(stack) - 16
                                        - (IF last' = MovStHp(W) THEN W ELSE 0))
                /\ reference_map' = Released(reference_map, <<TopU64(stack)>>)
      ]_vars

\* A SET_CHILD on slot 2 of an object with two child slots has failed: of the
\* four references and two numbers pushed, three references are left, and
\* the object's count went from 4 to 2
C29_Witness ==
    /\ instructions = ChildIndexProgram("SET_CHILD", 2, 2)
    /\ last.op = "SET_CHILD"
    /\ result = Err("ChildIndexOutOfBounds")
    /\ Len(stack) = 24
    /\ reference_map[1].stack_references = 2
    /\ reference_map[1].children = <<0, 0>>

\* A store of 8 bytes at start 2 of 5 data bytes has failed
C29_WitnessStore ==
    /\ last = MovStHp(8)
    /\ result = Err("OutOfBoundsObjectDataAccess")
    /\ Len(reference_map[1].data) = 5
    /\ reference_map[1].data = Zeros(5)
    /\ reference_map[1].stack_references = 2

\* ------------------------------------------------------------------ C24
\* C24: stack_refs never wraps.  increment_stack_references fails with
\* StackReferenceError at 65535 and decrement_stack_references at 0; either
\* fails with ObjectNotFound on a reference no object holds; a failing call
\* leaves the heap as it was, a successful one changes the stack_refs of that
\* one object by exactly one.
C24_StackRefsNeverWrap ==
    [][\A r \in 1..(MaxObjects + 1) :
        /\ last' = HeapCall("increment_stack_references", <<r>>) =>
            /\ counter' = counter
            /\ IF r \notin DOMAIN reference_map
               THEN result' = Err("ObjectNotFound") /\ reference_map' = reference_map
               ELSE IF reference_map[r].stack_references = 65535
               THEN result' = Err("StackReferenceError") /\ reference_map' = reference_map
               ELSE /\ result' = Ok
                    /\ reference_map' =
                            [reference_map EXCEPT ![r].stack_references = @ + 1]
        /\ last' = HeapCall("decrement_stack_references", <<r>>) =>
            /\ counter' = counter
            /\ IF r \notin DOMAIN reference_map
               THEN result' = Err("ObjectNotFound") /\ reference_map' = reference_map
               ELSE IF reference_map[r].stack_references = 0
               THEN result' = Err("StackReferenceError") /\ reference_map' = reference_map
               ELSE /\ result' = Ok
                    /\ reference_map' =
                            [reference_map EXCEPT ![r].stack_references = @ - 1]
      ]_vars

\* An increment refused at 65535 (reached by an increment from 65534), a
\* decrement refused at 0, and a call on an absent reference
C24_Witness ==
    /\ last = HeapCall("increment_stack_references", <<1>>)
    /\ result = Err("StackReferenceError")
    /\ reference_map[1].stack_references = 65535
    /\ before[1].stack_references = 65535

C24_WitnessDecrement ==
    /\ last = HeapCall("decrement_stack_references", <<2>>)
    /\ result = Err("StackReferenceError")
    /\ reference_map[2].stack_references = 0

C24_WitnessAbsent ==
    /\ last.op = "decrement_stack_references"
    /\ result = Err("ObjectNotFound")

\* ------------------------------------------------------------------ C25
\* C25: at the counter whose successor would be zero in 64 bits (u64::MAX),
\* allocate fails with Allocation and adds no object; the counter stays there,
\* through collect_garbage too, so every later allocate fails the same way.
C25_ExhaustedCounter ==
    [][/\ (last'.op = "allocate" /\ counter = U64_MAX) =>
            /\ result' = Err("Allocation")
            /\ reference_map' = reference_map
            /\ counter' = U64_MAX
       /\ (last'.op = "collect_garbage" /\ counter = U64_MAX) => counter' = U64_MAX
      ]_vars

\* ------------------------------------------------------------------ C26
\* The little-endian encoding of a value: byte j holds the bits 8j-7 .. 8j,
\* the lowest byte first
LittleEndian(v) == [j \in 1..(Len(v) \div 8) |-> ToNat(SubSeq(v, 8 * j - 7, 8 * j))]

\* C26: for each of the ten types, push_<T>(v) appends the little-endian
\* encoding of v, and a pop_<T>() right after it returns v and leaves the
\* stack as it was before the push; push_slice(s) appends s and a
\* pop_slice(len(s)) right after it returns s in the same order and restores
\* the stack; Vec's push_u8 and pop_u8 do what push_slice and pop_slice of one
\* byte do.
C26_PushPopRoundTrip ==
    [][/\ last'.op = "push" =>
            /\ result' = Ok
            /\ stack' = stack \o LittleEndian(last'.value[2])
       /\ (last.op = "push" /\ last'.op = "pop"
                /\ last'.value[1] = last.value[1]) =>
            /\ result' = Ok
            /\ last'.value[3] = last.value[2]
            /\ stack' = before
       /\ last'.op = "push_slice" =>
            /\ result' = Ok
            /\ stack' = stack \o last'.value[2]
       /\ (last.op = "push_slice" /\ last'.op = "pop_slice"
                /\ last'.value[2] = Len(last.value[2])) =>
            /\ result' = Ok
            /\ last'.value[3] = last.value[2]
            /\ stack' = before
       /\ last'.op = "push_u8" =>
            /\ result' = Ok
            /\ stack' = push_slice(Machine, <<last'.value[2]>>).stack
       /\ last'.op = "pop_u8" =>
            /\ result' = pop_slice(Machine, 1).err
            /\ stack' = pop_slice(Machine, 1).stack
            /\ result' = Ok => <<last'.value[3]>> = pop_slice(Machine, 1).val
      ]_vars

\* pop_f64 has returned the NaN pushed by push_f64 on the stack 09, and
\* pop_slice the three bytes pushed by push_slice
C26_Witness ==
    /\ last.op = "pop"
    /\ last.value[1] = f64
    /\ last.value[3] = int_from_le_bytes(FloatBytes(8, 1, 240, 127))
    /\ result = Ok
    /\ stack = <<9>>
    /\ before = <<9, 1, 0, 0, 0, 0, 0, 240, 127>>

C26_WitnessSlice ==
    /\ last.op = "pop_slice"
    /\ last.value[2] = 3
    /\ last.value[3] = <<5, 6, 7>>
    /\ result = Ok
    /\ before = stack \o <<5, 6, 7>>

\* ------------------------------------------------------------------ C27
\* The number of bytes a call of last asks for (pop_slice, remove_top: the
\* argument; pop_<T>: the size of T; pop_u8: 1), or -1 for a push
Requested(call) ==
    CASE call.op \in {"pop_slice", "remove_top"} -> call.value[2]
      [] call.op = "pop" -> call.value[1].bits \div 8
      [] call.op = "pop_u8" -> 1
      [] OTHER -> -1

\* C27: pop_slice(n), remove_top(n) and every pop_<T> fail with Underflow
\* exactly when the stack holds fewer bytes than they ask for, and then leave
\* the stack unchanged; otherwise they succeed and remove exactly the bytes
\* asked for from the top (pop_slice returning them).
C27_UnderflowExactly ==
    [][Requested(last') >= 0 =>
        IF Len(stack) < Requested(last')
        THEN result' = Err("Underflow") /\ stack' = stack
        ELSE /\ result' = Ok
             /\ stack' = SubSeq(stack, 1, Len(stack) - Requested(last'))
             /\ last'.op = "pop_slice" =>
                    last'.value[3] = SubSeq(stack, Len(stack) - Requested(last') + 1,
                                            Len(stack))
      ]_vars

\* pop_u32 refused on a stack of two bytes, and remove_top(8) on one of three
C27_Witness ==
    /\ last.op = "pop"
    /\ last.value[1] = u32
    /\ result = Err("Underflow")
    /\ stack = <<9, 34>>
    /\ before = <<9, 34>>

C27_WitnessRemove ==
    /\ last.op = "remove_top"
    /\ last.value[2] = 8
    /\ result = Err("Underflow")
    /\ Len(stack) = 3

\* ------------------------------------------------------------------ C28
\* The orderings each predicate is true for
TrueFor(name) ==
    CASE name = "is_eq" -> {"Equal"}
      [] name = "is_ne" -> {"Unordered", "Less", "Greater"}
      [] name = "is_lt" -> {"Less"}
      [] name = "is_gt" -> {"Greater"}
      [] name = "is_le" -> {"Unordered", "Less", "Equal"}
      [] name = "is_ge" -> {"Unordered", "Equal", "Greater"}

\* C28: eq is true only for Equal; ne for Unordered, Less and Greater; lt only
\* for Less; gt only for Greater; le for Unordered, Less and Equal; ge for
\* Unordered, Equal and Greater.  The bytes 0, 1, 2, 3 decode to Unordered,
\* Less, Equal, Greater (any other byte is refused with
\* InvalidComparisonByte), and an ordering converted back gives the byte it
\* was decoded from.
C28_PredicateTable ==
    /\ before # <<>> =>
        /\ before[1] = (CASE instructions[1] = 0 -> "Unordered"
                          [] instructions[1] = 1 -> "Less"
                          [] instructions[1] = 2 -> "Equal"
                          [] instructions[1] = 3 -> "Greater"
                          [] OTHER -> "Invalid")
        /\ result = IF instructions[1] > 3
                    THEN ErrByte("InvalidComparisonByte", instructions[1]) ELSE Ok
    /\ last.op \in Predicates => last.value[1] = (before[1] \in TrueFor(last.op))
    /\ stack # <<>> => stack = instructions

\* Unordered, decoded from the byte 0, satisfies is_ge; and Greater went back
\* to the byte 3
C28_Witness ==
    /\ instructions = <<0>>
    /\ before = <<"Unordered">>
    /\ last.op = "is_ge"
    /\ last.value = <<TRUE>>

C28_WitnessRoundTrip ==
    /\ before = <<"Greater">>
    /\ last.op = "as_u8"
    /\ stack = <<3>>

\* The objects of a map whose children all are null or in the map
NoDanglingChild(map) ==
    \A r \in DOMAIN map : \A i \in DOMAIN map[r].children :
        map[r].children[i] # 0 => map[r].children[i] \in DOMAIN map

\* C31: no dangling child edges.  After any sequence of instructions and
\* collections, every non-null child stored in an object of the heap is in the
\* heap, and no collection fails the lookup of sift_garbage (the unwrap panic).
C31_NoDanglingChildren ==
    /\ NoDanglingChild(reference_map)
    /\ last.op = "collect_garbage" => result = Ok

\* C31's cases: a collection has removed an object and kept a parent with its
\* child; a SET_CHILD with a child reference that is not in the heap has failed
\* with ObjectNotFound and left the slot of the parent null.
C31_Witness ==
    /\ Collected
    /\ DOMAIN before # DOMAIN reference_map
    /\ \E r \in DOMAIN reference_map : \E c \in DOMAIN reference_map :
            reference_map[r].children = <<c>>

C31_WitnessForged ==
    /\ last.op = "SET_CHILD"
    /\ result = Err("ObjectNotFound")
    /\ \E r \in DOMAIN reference_map :
            /\ reference_map[r].children = <<0>>
            /\ DOMAIN reference_map = {r}
            /\ Len(stack) = 0

\* A map with the child slots of every object in the opposite order
ChildrenReversed(map) ==
    [r \in DOMAIN map |->
        [map[r] EXCEPT !.children =
            [i \in DOMAIN map[r].children |-> map[r].children[Len(map[r].children) + 1 - i]]]]

\* C32: collect_garbage is deterministic.  The heap a collection leaves is the
\* one it leaves for every order the roots can be listed in, the set of objects
\* that remain is the same when the children of every object are visited in
\* the opposite order, and a collection right after a collection removes nothing.
C32_CollectionDeterministic ==
    [][ last'.op = "collect_garbage" =>
            /\ \A root_objects \in Orders(Roots(reference_map)) :
                  /\ collect_garbage(reference_map, root_objects).map = reference_map'
                  /\ DOMAIN collect_garbage(ChildrenReversed(reference_map), root_objects).map
                        = DOMAIN reference_map'
            /\ \A root_objects \in Orders(Roots(reference_map')) :
                  collect_garbage(reference_map', root_objects).map = reference_map'
            /\ last.op = "collect_garbage" => reference_map' = reference_map ]_vars

\* C32's cases: a collection over two roots, each with a child of its own
\* choice in either slot order, has removed an object; and a collection has
\* found nothing to remove in a heap that still holds an object that is no root.
C32_Witness ==
    /\ Collected
    /\ Cardinality(Roots(before)) = 2
    /\ DOMAIN before # DOMAIN reference_map
    /\ \E r \in Roots(before) : \E a, b \in DOMAIN before :
            a # b /\ before[r].children = <<a, b>>

C32_WitnessAgain ==
    /\ Collected
    /\ before = reference_map
    /\ \E r \in DOMAIN reference_map : reference_map[r].stack_references = 0
    /\ Cardinality(DOMAIN reference_map) = 2

\* C33: no use-after-free for unforged references.  In the runs where every
\* value taken as a reference was pushed as one, every non-null reference on
\* the stack is in the heap with stack_references >= 1, whatever instruction or
\* collection came last, and a collection removes the object of none of them.
C33_StackReferencesResolve ==
    /\ \A i \in TaggedRefs :
        LET obj_ref == from_le_bytes(SubSeq(stack, i, i + 7)) IN
        /\ obj_ref \in DOMAIN reference_map
        /\ reference_map[obj_ref].stack_references >= 1
    /\ last.op = "collect_garbage" => result = Ok

\* C33's cases: a collection has removed an object while the stack holds two
\* references to another; and a collection has removed a parent that
\* SET_CHILD gave a child, while the stack still holds a reference to the child.
C33_Witness ==
    /\ Collected
    /\ DOMAIN before # DOMAIN reference_map
    /\ \E i, j \in TaggedRefs : i # j /\ SubSeq(stack, i, i + 7) = SubSeq(stack, j, j + 7)

C33_WitnessChild ==
    /\ Collected
    /\ \E p \in DOMAIN before \ DOMAIN reference_map :
        \E i \in TaggedRefs :
            /\ before[p].children = <<from_le_bytes(SubSeq(stack, i, i + 7))>>
            /\ before[p].children # <<p>>

\* C34: once assign_jump_marker(location, address) has filled the placeholder
\* in, the bytes push_jump_marker emitted (they start one byte before location)
\* decode with from_reader to PSH_8 with the 8 little-endian bytes of address,
\* which are the bytes at location, followed by JSR; executing the two moves
\* the cursor to address.
C34_MarkerIsPushThenJump ==
    Len(before) = 2 =>
        LET location == before[1]
            address == before[2]
            push == from_reader(instructions, location - 1, FALSE)
            jump == from_reader(instructions, push.pos, FALSE)
        IN  /\ push.err = Ok
            /\ push.instruction = Psh(8, address)
            /\ SubSeq(instructions, location + 1, location + 8) = address
            /\ jump.err = Ok
            /\ jump.instruction = Instr("JSR")
            /\ LET pushed == execute([Machine EXCEPT !.pos = push.pos], push.instruction)
                    jumped == execute([pushed EXCEPT !.pos = jump.pos], jump.instruction)
                IN  /\ jumped.err = Ok
                    /\ jumped.pos = from_le_bytes(address)

====
